---- MODULE Spec2Model ----
(***************************************************************************)
(* A model of marian-rs: the full-text search engine (src/src/fts.rs), its *)
(* trie (src/src/trie.rs), the query phrase checker (src/src/query.rs),    *)
(* the tokenizer (src/src/stemmer.rs) and the HTTP service that serves and *)
(* refreshes the index (src/src/main.rs).                                  *)
(*                                                                         *)
(* Strings of the program are modelled as sequences: a word is a sequence  *)
(* of one-character strings, a URL is a sequence of URL symbols (see       *)
(* UrlSymbols).  Each specification below exercises one part of the        *)
(* program and leaves the variables of the other parts at their idle       *)
(* values.                                                                 *)
(***************************************************************************)
EXTENDS Integers, Sequences, FiniteSets, TLC

VARIABLES
    url,              \* normalize_url: the URL string handed to the first call
    normalized,       \* normalize_url: the results of the successive calls
    trie,             \* Trie.trie: key -> set of DocID
    inserted,         \* history of the Trie::insert calls, <<token, id>>
    found,            \* the last Trie::search call: <<[prefix, result]>>
    stemmed_phrases,  \* Query.stemmed_phrases
    tokens,           \* the keyword map handed to Query::check_phrases
    phrase_result,    \* <<what Query::check_phrases returned>>
    index,            \* the FTSIndex being built, then searched
    added,            \* history of the FTSIndex::add calls on index
    clock,            \* the wall clock time::get_time reads
    query,            \* <<the Query handed to FTSIndex::search>>
    fp,               \* <<the f32 outcomes of that search>>, see FloatOutcomes
    match_set,        \* MatchSet.matches as handed to MatchSet::hits
    hits_result,      \* <<what MatchSet::hits returned>>
    result,           \* <<what FTSIndex::search returned>>
    lock,             \* the RwLock of Marian.index: who holds it
    worker,           \* the request each worker of the CpuPool is handling
    refreshes,        \* what load() returned to each /refresh taken so far
    query_string,     \* the string handed to Query::new
    parsed,           \* <<the Query that Query::new made of query_string>>
    parsed_closed,    \* <<the Query made of query_string with a quote appended>>
    input_text,       \* the components of the text handed to tokenize
    tokenized,        \* <<[fuzzy, tokens]>>: the last tokenize call
    input_word,       \* the word handed to stem
    stem_results,     \* the results of stem applied again and again to it
    stem_cache        \* STEM_CACHE of the thread that calls stem

urlVars == <<url, normalized>>
trieVars == <<trie, inserted, found>>
phraseVars == <<stemmed_phrases, tokens, phrase_result>>
indexVars == <<index, added, clock>>
searchVars == <<query, fp, match_set, hits_result, result>>
serverVars == <<lock, worker, refreshes>>
parseVars == <<query_string, parsed, parsed_closed>>
tokenizeVars == <<input_text, tokenized>>
stemVars == <<input_word, stem_results, stem_cache>>
textVars == <<parseVars, tokenizeVars, stemVars>>
vars == <<url, normalized, trie, inserted, found, stemmed_phrases, tokens,
          phrase_result, index, added, clock, query, fp, match_set, hits_result,
          result, lock, worker, refreshes, query_string, parsed, parsed_closed,
          input_text, tokenized, input_word, stem_results, stem_cache>>

(***************************************************************************)
(* Generic helpers.                                                        *)
(***************************************************************************)
SeqsUpTo(S, n) == UNION {[1..k -> S] : k \in 0..n}

Range(s) == {s[i] : i \in DOMAIN s}

IsPrefix(p, s) == Len(p) <= Len(s) /\ SubSeq(s, 1, Len(p)) = p

Max(a, b) == IF a >= b THEN a ELSE b

\* An enumeration of a finite set, standing for the iteration order of a
\* hash set or hash map.
RECURSIVE SetToSeq(_)
SetToSeq(S) ==
    IF S = {} THEN <<>>
    ELSE LET x == CHOOSE y \in S : TRUE IN <<x>> \o SetToSeq(S \ {x})

(***************************************************************************)
(* normalize_url (fts.rs).  A URL is a sequence of symbols; "/" is the     *)
(* slash, "index.html" the file name the function looks for, and every     *)
(* other symbol stands for a run of characters that holds neither.  The    *)
(* pattern "/index.html" is the two symbols <<"/", "index.html">>.         *)
(***************************************************************************)
Slash == "/"
IndexHtml == "index.html"

MaxUrlLen == 5
UrlSymbols == {Slash, IndexHtml, "a"}
Urls == SeqsUpTo(UrlSymbols, MaxUrlLen)

\* The positions (of the slash) where "/index.html" occurs in u.
IndexHtmlOccurrences(u) ==
    {i \in 1..(Len(u) - 1) : u[i] = Slash /\ u[i + 1] = IndexHtml}

\* A variant that searches from the front (find instead of rfind).
FindIndexHtml(u) ==
    CHOOSE i \in IndexHtmlOccurrences(u) :
        \A j \in IndexHtmlOccurrences(u) : i <= j

\* url.rfind("/index.html"): the last occurrence; offset + 1 is the number of
\* symbols kept by truncate(offset + 1), the slash included.
RFindIndexHtml(u) ==
    CHOOSE i \in IndexHtmlOccurrences(u) :
        \A j \in IndexHtmlOccurrences(u) : j <= i

EndsWithSlash(u) == Len(u) > 0 /\ u[Len(u)] = Slash

TruncateAtIndexHtml(u) ==
    IF IndexHtmlOccurrences(u) # {}
    THEN SubSeq(u, 1, RFindIndexHtml(u))
    ELSE u

normalize_url(u) ==
    LET t == TruncateAtIndexHtml(u)
    IN IF ~EndsWithSlash(t) THEN Append(t, Slash) ELSE t

NormalizeUrl ==
    /\ Len(normalized) < 2
    /\ normalized' = Append(normalized,
                        normalize_url(IF normalized = <<>> THEN url
                                      ELSE normalized[Len(normalized)]))
    /\ UNCHANGED <<url, trieVars, phraseVars, indexVars, searchVars, serverVars, textVars>>

UrlIdle == url = <<>> /\ normalized = <<>>

(***************************************************************************)
(* Trie (trie.rs): a qp_trie from byte strings to sets of document IDs.    *)
(***************************************************************************)
MaxInserts == 3
TrieDocIds == {0, 1}

foo == <<"f", "o", "o">>
foobar == <<"f", "o", "o", "b", "a", "r">>
foobaz == <<"f", "o", "o", "b", "a", "z">>
TrieTokens == {foo, foobar, foobaz}
TriePrefixes == {<<>>, <<"f">>, foo, <<"f", "o", "o", "b", "a">>, foobar,
                 foobaz, <<"b">>, <<"f", "o", "o", "b", "a", "r", "s">>}

TrieNew == [k \in {} |-> {}]

\* A variant that replaces the set stored under the key.
TrieInsertReplace(tr, token, id) ==
    [k \in DOMAIN tr \cup {token} |-> IF k = token THEN {id} ELSE tr[k]]

\* self.trie.entry(key).or_insert_with(HashSet::new).insert(id)
TrieInsert(tr, token, id) ==
    [k \in DOMAIN tr \cup {token} |->
        IF k = token
        THEN (IF k \in DOMAIN tr THEN tr[k] ELSE {}) \cup {id}
        ELSE tr[k]]

\* for (k, doc_ids) in iter_prefix_str(term): for doc_id in doc_ids:
\*     result.entry(doc_id).or_insert_with(Vec::new).push(k)
TrieSearch(tr, term) ==
    LET keys == SetToSeq({k \in DOMAIN tr : IsPrefix(term, k)})
        docs == UNION {tr[keys[i]] : i \in DOMAIN keys}
    IN [d \in docs |-> SelectSeq(keys, LAMBDA k : d \in tr[k])]

TrieInsertCall ==
    \E t \in TrieTokens, d \in TrieDocIds :
        /\ Len(inserted) < MaxInserts
        /\ trie' = TrieInsert(trie, t, d)
        /\ inserted' = Append(inserted, <<t, d>>)
        /\ found' = <<>>
        /\ UNCHANGED <<urlVars, phraseVars, indexVars, searchVars, serverVars, textVars>>

TrieSearchCall ==
    \E p \in TriePrefixes :
        /\ found' = <<[prefix |-> p, result |-> TrieSearch(trie, p)]>>
        /\ UNCHANGED <<trie, inserted, urlVars, phraseVars, indexVars, searchVars, serverVars, textVars>>

TrieIdle == trie = TrieNew /\ inserted = <<>> /\ found = <<>>

(***************************************************************************)
(* The phrase checker (query.rs).                                          *)
(***************************************************************************)
MaxPosition == 2
MaxPhraseLen == 2

quoth == <<"q", "u", "o", "t", "h">>
raven == <<"r", "a", "v", "e", "n">>
bar == <<"b", "a", "r">>
PhraseWords == {quoth, raven}

\* have_contiguous_path(tree, last_candidate); last_candidate None is
\* modelled as -1, which no position follows.
RECURSIVE PathFrom(_, _, _)
\* The loop "for &element in tree[0]" from its i-th element on.
PathFrom(tree, last, i) ==
    IF i > Len(tree[1]) THEN FALSE
    ELSE LET element == tree[1][i]
         IN IF /\ (last = -1 \/ element = last + 1)
               /\ (IF Len(tree) = 1 THEN TRUE
                   ELSE PathFrom(Tail(tree), element, 1))
            THEN TRUE
            ELSE PathFrom(tree, last, i + 1)

have_contiguous_path(tree, last) ==
    IF tree = <<>> THEN TRUE ELSE PathFrom(tree, last, 1)

\* A variant that skips a component the map does not hold.
have_contiguous_keywords_skip(phrase_components, keywords) ==
    have_contiguous_path(
        [i \in DOMAIN SelectSeq(phrase_components, LAMBDA c : c \in DOMAIN keywords)
            |-> keywords[SelectSeq(phrase_components,
                                   LAMBDA c : c \in DOMAIN keywords)[i]]],
        -1)

\* have_contiguous_keywords(phrase_components, keywords)
have_contiguous_keywords(phrase_components, keywords) ==
    IF \E i \in DOMAIN phrase_components :
           phrase_components[i] \notin DOMAIN keywords
    THEN FALSE
    ELSE have_contiguous_path(
             [i \in DOMAIN phrase_components |-> keywords[phrase_components[i]]],
             -1)

\* Query::check_phrases(tokens)
check_phrases(phrases, keywords) ==
    \A i \in DOMAIN phrases : have_contiguous_keywords(phrases[i], keywords)

\* A keyword has no, one or two positions, in any order.
PositionLists ==
    {<<>>} \cup {<<p>> : p \in 0..MaxPosition}
           \cup {<<p, q>> : p \in 0..MaxPosition, q \in 0..MaxPosition}
KeywordMaps ==
    UNION {[ws -> PositionLists] : ws \in SUBSET PhraseWords}
Phrases == SeqsUpTo(PhraseWords, MaxPhraseLen)
\* A query has no, one or two quoted phrases.
StemmedPhraseLists ==
    {<<>>} \cup {<<p>> : p \in Phrases} \cup {<<p, q>> : p \in Phrases, q \in Phrases}

CheckPhrasesCall ==
    /\ phrase_result = <<>>
    /\ phrase_result' = <<check_phrases(stemmed_phrases, tokens)>>
    /\ UNCHANGED <<stemmed_phrases, tokens, urlVars, trieVars, indexVars, searchVars, serverVars, textVars>>

PhraseIdle == stemmed_phrases = <<>> /\ tokens = <<>> /\ phrase_result = <<>>

(***************************************************************************)
(* The tokenizer and the stemmer (stemmer.rs).  A text is the sequence of  *)
(* its components: the pieces PAT_TOKEN_SEPARATOR.split leaves, which hold *)
(* only word characters, "$", "%" and "."; the empty text is <<>>.         *)
(***************************************************************************)
STOP_WORDS == {
    <<"a">>, <<"a", "b", "l", "e">>, <<"a", "b", "o", "u", "t">>,
    <<"a", "c", "r", "o", "s", "s">>, <<"a", "f", "t", "e", "r">>,
    <<"a", "l", "l">>, <<"a", "l", "m", "o", "s", "t">>,
    <<"a", "l", "s", "o">>, <<"a", "m">>, <<"a", "m", "o", "n", "g">>,
    <<"a", "n">>, <<"a", "n", "d">>, <<"a", "n", "y">>, <<"a", "r", "e">>,
    <<"a", "s">>, <<"a", "t">>, <<"b", "e">>,
    <<"b", "e", "c", "a", "u", "s", "e">>, <<"b", "e", "e", "n">>,
    <<"b", "u", "t">>, <<"b", "y">>, <<"c", "a", "n">>,
    <<"c", "a", "n", "n", "o", "t">>, <<"c", "o", "u", "l", "d">>,
    <<"d", "e", "a", "r">>, <<"d", "i", "d">>, <<"d", "o">>,
    <<"d", "o", "e", "s">>, <<"e", "i", "t", "h", "e", "r">>,
    <<"e", "l", "s", "e">>, <<"e", "v", "e", "r">>,
    <<"e", "v", "e", "r", "y">>, <<"f", "o", "r">>, <<"f", "r", "o", "m">>,
    <<"g", "o", "t">>, <<"h", "a", "d">>, <<"h", "a", "s">>,
    <<"h", "a", "v", "e">>, <<"h", "e">>, <<"h", "e", "r">>,
    <<"h", "e", "r", "s">>, <<"h", "i", "m">>, <<"h", "i", "s">>,
    <<"h", "o", "w">>, <<"h", "o", "w", "e", "v", "e", "r">>, <<"i">>,
    <<"i", ".", "e", ".">>, <<"i", "f">>,
    <<"i", "m", "p", "o", "r", "t", "a", "n", "t">>, <<"i", "n">>,
    <<"i", "n", "t", "o">>, <<"i", "s">>, <<"i", "t">>, <<"i", "t", "s">>,
    <<"j", "u", "s", "t">>, <<"m", "a", "y">>, <<"m", "e">>,
    <<"m", "i", "g", "h", "t">>, <<"m", "o", "s", "t">>,
    <<"m", "u", "s", "t">>, <<"m", "y">>,
    <<"n", "e", "i", "t", "h", "e", "r">>, <<"n", "o">>, <<"n", "o", "r">>,
    <<"o", "f">>, <<"o", "f", "f">>, <<"o", "f", "t", "e", "n">>,
    <<"o", "n">>, <<"o", "n", "l", "y">>, <<"o", "r">>,
    <<"o", "t", "h", "e", "r">>, <<"o", "u", "r">>, <<"o", "w", "n">>,
    <<"r", "a", "t", "h", "e", "r">>, <<"s", "a", "i", "d">>,
    <<"s", "a", "y">>, <<"s", "a", "y", "s">>, <<"s", "h", "e">>,
    <<"s", "h", "o", "u", "l", "d">>, <<"s", "i", "n", "c", "e">>,
    <<"s", "o">>, <<"s", "o", "m", "e">>, <<"t", "h", "a", "n">>,
    <<"t", "h", "a", "t">>, <<"t", "h", "e">>, <<"t", "h", "e", "i", "r">>,
    <<"t", "h", "e", "m">>, <<"t", "h", "e", "n">>,
    <<"t", "h", "e", "r", "e">>, <<"t", "h", "e", "s", "e">>,
    <<"t", "h", "e", "y">>, <<"t", "h", "i", "s">>, <<"t", "i", "s">>,
    <<"t", "o">>, <<"t", "o", "o">>, <<"t", "w", "a", "s">>, <<"u", "s">>,
    <<"w", "a", "n", "t", "s">>, <<"w", "a", "s">>, <<"w", "e">>,
    <<"w", "e", "r", "e">>, <<"w", "h", "a", "t">>,
    <<"w", "h", "e", "r", "e">>, <<"w", "h", "i", "c", "h">>,
    <<"w", "h", "i", "l", "e">>, <<"w", "h", "o">>, <<"w", "h", "o", "m">>,
    <<"w", "h", "y">>, <<"w", "i", "l", "l">>, <<"w", "i", "t", "h">>,
    <<"w", "o", "u", "l", "d">>, <<"y", "e", "t">>, <<"y", "o", "u">>,
    <<"y", "o", "u", "r">>, <<"e", ".", "g", ".">>}

ops == <<"o", "p", "s">>
cloud == <<"c", "l", "o", "u", "d">>
manager == <<"m", "a", "n", "a", "g", "e", "r">>
positional == <<"p", "o", "s", "i", "t", "i", "o", "n", "a", "l">>
operator == <<"o", "p", "e", "r", "a", "t", "o", "r">>

ATOMIC_PHRASE_MAP == (ops :> manager) @@ (cloud :> manager)
ATOMIC_PHRASES == {k \o <<" ">> \o ATOMIC_PHRASE_MAP[k] : k \in DOMAIN ATOMIC_PHRASE_MAP}

is_stop_word(word) == word \in STOP_WORDS

UpperCase == <<"A", "B", "C", "D", "E", "F", "G", "H", "I", "J", "K", "L", "M",
               "N", "O", "P", "Q", "R", "S", "T", "U", "V", "W", "X", "Y", "Z">>
LowerCase == <<"a", "b", "c", "d", "e", "f", "g", "h", "i", "j", "k", "l", "m",
               "n", "o", "p", "q", "r", "s", "t", "u", "v", "w", "x", "y", "z">>

\* str::to_lowercase on the characters of the model.
to_lowercase(word) ==
    [i \in DOMAIN word |->
        IF \E k \in DOMAIN UpperCase : UpperCase[k] = word[i]
        THEN LowerCase[CHOOSE k \in DOMAIN UpperCase : UpperCase[k] = word[i]]
        ELSE word[i]]

\* PAT_BAD_CHARS.replace_all(token, ""): a leading dot and a trailing dot go.
StripDots(word) ==
    LET a == IF Len(word) > 0 /\ word[1] = "." THEN Tail(word) ELSE word
    IN IF Len(a) > 0 /\ a[Len(a)] = "." THEN SubSeq(a, 1, Len(a) - 1) ELSE a

RECURSIVE SplitDots(_)
\* token.split('.')
SplitDots(word) ==
    IF \A i \in DOMAIN word : word[i] # "." THEN <<word>>
    ELSE LET d == CHOOSE i \in DOMAIN word :
                      word[i] = "." /\ \A j \in 1..(i - 1) : word[j] # "."
         IN <<SubSeq(word, 1, d - 1)>> \o SplitDots(SubSeq(word, d + 1, Len(word)))

\* The characters of the model that take two bytes in UTF-8; every other
\* character of the model takes one.
TwoByteCharacters == {"é"}
len_utf8(c) == IF c \in TwoByteCharacters THEN 2 ELSE 1

RECURSIVE len(_)
\* str::len: the length of the string in bytes.
len(word) == IF word = <<>> THEN 0 ELSE len_utf8(Head(word)) + len(Tail(word))

RECURSIVE TokenizeFrom(_, _, _)
\* The loop "for i in 0..components.len()" of tokenize from component i on;
\* the skip flag is modelled by continuing at i + 2.
TokenizeFrom(components, i, fuzzy) ==
    IF i > Len(components) THEN <<>>
    ELSE LET token == components[i]
         IN IF token = <<"$">>
            THEN <<positional, operator>> \o TokenizeFrom(components, i + 1, fuzzy)
            ELSE IF /\ i + 1 <= Len(components)
                    /\ token \in DOMAIN ATOMIC_PHRASE_MAP
                    /\ ATOMIC_PHRASE_MAP[token] = components[i + 1]
            THEN <<token \o <<" ">> \o ATOMIC_PHRASE_MAP[token]>>
                     \o TokenizeFrom(components, i + 2, fuzzy)
            ELSE (IF len(token) > 1 THEN <<token>> ELSE <<>>)
                     \o (IF fuzzy
                         THEN SelectSeq(SplitDots(token), LAMBDA s : len(s) > 1)
                         ELSE <<>>)
                     \o TokenizeFrom(components, i + 1, fuzzy)

tokenize(text, fuzzy) ==
    TokenizeFrom([i \in DOMAIN text |-> to_lowercase(StripDots(text[i]))], 1, fuzzy)

fox == <<"f", "o", "x">>
Fox == <<"F", "o", "x">>
foxes == <<"f", "o", "x", "e", "s">>
red == <<"r", "e", "d">>
the == <<"t", "h", "e">>
importance == <<"i", "m", "p", "o", "r", "t", "a", "n", "c", "e">>
important == <<"i", "m", "p", "o", "r", "t", "a", "n", "t">>

\* StemmerContext::new(word).get(): the Porter2 stems of the words the model's
\* documents and queries hold.  A word outside the table has no stem here.
dollar_fox == <<"$", "f", "o", "x">>
Porter2Stems ==
    (fox :> fox) @@ (foxes :> fox) @@ (red :> red) @@ (quoth :> quoth)
        @@ (raven :> raven) @@ (the :> the) @@ (foo :> foo) @@ (bar :> bar)
        @@ (<<"i", "n", "t", "r", "o", "d", "u", "c", "e">>
                :> <<"i", "n", "t", "r", "o", "d", "u", "c">>)
        @@ (<<"o", "f", "f", "i", "c", "i", "a", "l", "l", "y">>
                :> <<"o", "f", "f", "i", "c", "i">>)
        @@ (<<"s", "u", "p", "p", "o", "r", "t", "e", "d">>
                :> <<"s", "u", "p", "p", "o", "r", "t">>)
        @@ (importance :> important) @@ (dollar_fox :> dollar_fox) @@ (Fox :> Fox)

\* stem(word); the per-thread cache returns what the stemmer returned.
stem(word) ==
    IF word \in ATOMIC_PHRASES THEN word ELSE Porter2Stems[word]

(***************************************************************************)
(* The Porter2 stemmer (porter2.rs).  A cursor is the number of characters *)
(* before it; a step of the backward part works at the end of the word.    *)
(***************************************************************************)
\* Stemmer::new: the among tables, each entry the string and its result (a_0
\* and a_9 are only asked whether they match), and the groupings.
Stemmer ==
    [a_0 |->
         {<<"a", "r", "s", "e", "n">>, <<"c", "o", "m", "m", "u", "n">>,
          <<"g", "e", "n", "e", "r">>},
     a_1 |->
         {<<<<"'">>, 1>>, <<<<"'", "s", "'">>, 1>>, <<<<"'", "s">>, 1>>},
     a_2 |->
         {<<<<"i", "e", "d">>, 2>>, <<<<"s">>, 3>>, <<<<"i", "e", "s">>, 2>>,
          <<<<"s", "s", "e", "s">>, 1>>, <<<<"s", "s">>, -1>>,
          <<<<"u", "s">>, -1>>},
     a_3 |->
         {<<<<>>, 3>>, <<<<"b", "b">>, 2>>, <<<<"d", "d">>, 2>>,
          <<<<"f", "f">>, 2>>, <<<<"g", "g">>, 2>>, <<<<"b", "l">>, 1>>,
          <<<<"m", "m">>, 2>>, <<<<"n", "n">>, 2>>, <<<<"p", "p">>, 2>>,
          <<<<"r", "r">>, 2>>, <<<<"a", "t">>, 1>>, <<<<"t", "t">>, 2>>,
          <<<<"i", "z">>, 1>>},
     a_4 |->
         {<<<<"e", "d">>, 2>>, <<<<"e", "e", "d">>, 1>>,
          <<<<"i", "n", "g">>, 2>>, <<<<"e", "d", "l", "y">>, 2>>,
          <<<<"e", "e", "d", "l", "y">>, 1>>,
          <<<<"i", "n", "g", "l", "y">>, 2>>},
     a_5 |->
         {<<<<"a", "n", "c", "i">>, 3>>, <<<<"e", "n", "c", "i">>, 2>>,
          <<<<"o", "g", "i">>, 13>>, <<<<"l", "i">>, 16>>,
          <<<<"b", "l", "i">>, 12>>, <<<<"a", "b", "l", "i">>, 4>>,
          <<<<"a", "l", "l", "i">>, 8>>, <<<<"f", "u", "l", "l", "i">>, 14>>,
          <<<<"l", "e", "s", "s", "l", "i">>, 15>>,
          <<<<"o", "u", "s", "l", "i">>, 10>>,
          <<<<"e", "n", "t", "l", "i">>, 5>>,
          <<<<"a", "l", "i", "t", "i">>, 8>>,
          <<<<"b", "i", "l", "i", "t", "i">>, 12>>,
          <<<<"i", "v", "i", "t", "i">>, 11>>,
          <<<<"t", "i", "o", "n", "a", "l">>, 1>>,
          <<<<"a", "t", "i", "o", "n", "a", "l">>, 7>>,
          <<<<"a", "l", "i", "s", "m">>, 8>>,
          <<<<"a", "t", "i", "o", "n">>, 7>>,
          <<<<"i", "z", "a", "t", "i", "o", "n">>, 6>>,
          <<<<"i", "z", "e", "r">>, 6>>, <<<<"a", "t", "o", "r">>, 7>>,
          <<<<"i", "v", "e", "n", "e", "s", "s">>, 11>>,
          <<<<"f", "u", "l", "n", "e", "s", "s">>, 9>>,
          <<<<"o", "u", "s", "n", "e", "s", "s">>, 10>>},
     a_6 |->
         {<<<<"i", "c", "a", "t", "e">>, 4>>,
          <<<<"a", "t", "i", "v", "e">>, 6>>,
          <<<<"a", "l", "i", "z", "e">>, 3>>,
          <<<<"i", "c", "i", "t", "i">>, 4>>, <<<<"i", "c", "a", "l">>, 4>>,
          <<<<"t", "i", "o", "n", "a", "l">>, 1>>,
          <<<<"a", "t", "i", "o", "n", "a", "l">>, 2>>,
          <<<<"f", "u", "l">>, 5>>, <<<<"n", "e", "s", "s">>, 5>>},
     a_7 |->
         {<<<<"i", "c">>, 1>>, <<<<"a", "n", "c", "e">>, 1>>,
          <<<<"e", "n", "c", "e">>, 1>>, <<<<"a", "b", "l", "e">>, 1>>,
          <<<<"i", "b", "l", "e">>, 1>>, <<<<"a", "t", "e">>, 1>>,
          <<<<"i", "v", "e">>, 1>>, <<<<"i", "z", "e">>, 1>>,
          <<<<"i", "t", "i">>, 1>>, <<<<"a", "l">>, 1>>,
          <<<<"i", "s", "m">>, 1>>, <<<<"i", "o", "n">>, 2>>,
          <<<<"e", "r">>, 1>>, <<<<"o", "u", "s">>, 1>>,
          <<<<"a", "n", "t">>, 1>>, <<<<"e", "n", "t">>, 1>>,
          <<<<"m", "e", "n", "t">>, 1>>, <<<<"e", "m", "e", "n", "t">>, 1>>},
     a_8 |->
         {<<<<"e">>, 1>>, <<<<"l">>, 2>>},
     a_9 |->
         {<<"s", "u", "c", "c", "e", "e", "d">>,
          <<"p", "r", "o", "c", "e", "e", "d">>,
          <<"e", "x", "c", "e", "e", "d">>,
          <<"c", "a", "n", "n", "i", "n", "g">>,
          <<"i", "n", "n", "i", "n", "g">>,
          <<"e", "a", "r", "r", "i", "n", "g">>,
          <<"h", "e", "r", "r", "i", "n", "g">>,
          <<"o", "u", "t", "i", "n", "g">>},
     a_10 |->
         {<<<<"a", "n", "d", "e", "s">>, -1>>,
          <<<<"a", "t", "l", "a", "s">>, -1>>, <<<<"b", "i", "a", "s">>, -1>>,
          <<<<"c", "o", "s", "m", "o", "s">>, -1>>,
          <<<<"d", "y", "i", "n", "g">>, 3>>,
          <<<<"e", "a", "r", "l", "y">>, 11>>,
          <<<<"g", "e", "n", "t", "l", "y">>, 9>>,
          <<<<"h", "o", "w", "e">>, -1>>, <<<<"i", "d", "l", "y">>, 8>>,
          <<<<"i", "m", "p", "o", "r", "t", "a", "n", "c", "e">>, 7>>,
          <<<<"i", "m", "p", "o", "r", "t", "a", "n", "t">>, -1>>,
          <<<<"l", "y", "i", "n", "g">>, 4>>, <<<<"n", "e", "w", "s">>, -1>>,
          <<<<"o", "n", "l", "y">>, 12>>,
          <<<<"r", "e", "p", "l", "i", "c", "a">>, 6>>,
          <<<<"s", "i", "n", "g", "l", "y">>, 13>>,
          <<<<"s", "k", "i", "e", "s">>, 2>>, <<<<"s", "k", "i", "s">>, 1>>,
          <<<<"s", "k", "y">>, -1>>, <<<<"t", "y", "i", "n", "g">>, 5>>,
          <<<<"u", "g", "l", "y">>, 10>>},
     g_v |-> {"a", "e", "i", "o", "u", "y"},
     g_v_WXY |-> {"a", "e", "i", "o", "u", "y", "w", "x", "Y"},
     g_valid_LI |-> {"c", "d", "e", "g", "h", "k", "m", "n", "r", "t"}]

\* find_among_b at the end of the word: the longest entry of the table the
\* word ends with, or the result 0.
find_among_b(word, among) ==
    LET EndsWith(s) ==
            Len(s) <= Len(word)
                /\ SubSeq(word, Len(word) - Len(s) + 1, Len(word)) = s
        matched == {e \in among : EndsWith(e[1])}
    IN IF matched = {} THEN <<<<>>, 0>>
       ELSE CHOOSE e \in matched : \A x \in matched : Len(x[1]) <= Len(e[1])

RECURSIVE MarkYs(_, _)
\* The repeat loop of r_prelude from cursor c on: a "y" after a vowel
\* becomes "Y".
MarkYs(word, c) ==
    LET at == {i \in (c + 1)..(Len(word) - 1) :
                  word[i] \in Stemmer.g_v /\ word[i + 1] = "y"}
    IN IF at = {} THEN word
       ELSE LET i == CHOOSE j \in at : \A k \in at : j <= k
            IN MarkYs([word EXCEPT ![i + 1] = "Y"], i - 1)

r_prelude(word) ==
    LET unquoted == IF word # <<>> /\ word[1] = "'" THEN Tail(word) ELSE word
        first == IF unquoted # <<>> /\ unquoted[1] = "y"
                 THEN <<"Y">> \o Tail(unquoted) ELSE unquoted
        marked == MarkYs(first, 0)
    IN [current |-> marked, B_Y_found |-> marked # unquoted]

\* r_mark_regions.  GoPast(c, vowel) is "gopast v" (vowel = TRUE) or "gopast
\* non-v" from cursor c: the cursor after the first such character, or -1.
r_mark_regions(word) ==
    LET GoPast(c, vowel) ==
            LET at == {i \in (c + 1)..Len(word) : (word[i] \in Stemmer.g_v) = vowel}
            IN IF at = {} THEN -1 ELSE CHOOSE i \in at : \A k \in at : i <= k
        GoPastBoth(c) ==
            IF GoPast(c, TRUE) = -1 THEN -1 ELSE GoPast(GoPast(c, TRUE), FALSE)
        prefixes == {s \in Stemmer.a_0 : IsPrefix(s, word)}
        p1 == IF prefixes # {} THEN Len(CHOOSE s \in prefixes : TRUE)
              ELSE GoPastBoth(0)
        p2 == IF p1 = -1 THEN -1 ELSE GoPastBoth(p1)
    IN [i_p1 |-> IF p1 = -1 THEN Len(word) ELSE p1,
        i_p2 |-> IF p2 = -1 THEN Len(word) ELSE p2]

\* r_shortv with the cursor at c.
r_shortv(word, c) ==
    \/ c >= 3 /\ word[c] \notin Stemmer.g_v_WXY /\ word[c - 1] \in Stemmer.g_v
              /\ word[c - 2] \notin Stemmer.g_v
    \/ c = 2 /\ word[2] \notin Stemmer.g_v /\ word[1] \in Stemmer.g_v

\* The steps return the word; r_step_1a and r_exception1 also tell whether
\* the match reached its arm "_ => unreachable!()".
r_step_1a(word) ==
    LET quote == find_among_b(word, Stemmer.a_1)
        w == SubSeq(word, 1, Len(word) - Len(quote[1]))
        m == find_among_b(w, Stemmer.a_2)
        bra == Len(w) - Len(m[1])
        kept == SubSeq(w, 1, bra)
    IN IF m[2] = 0 THEN [current |-> w, panicked |-> FALSE]
       ELSE IF m[2] = 1 THEN [current |-> kept \o <<"s", "s">>, panicked |-> FALSE]
       ELSE IF m[2] = 2
       THEN [current |-> IF bra >= 2 THEN kept \o <<"i">> ELSE kept \o <<"i", "e">>,
             panicked |-> FALSE]
       ELSE IF m[2] = 3
       THEN [current |-> IF \E i \in 1..(bra - 1) : w[i] \in Stemmer.g_v THEN kept ELSE w,
             panicked |-> FALSE]
       ELSE [current |-> w, panicked |-> TRUE]

r_exception2(word) == word \in Stemmer.a_9

r_step_1b(word, i_p1) ==
    LET m == find_among_b(word, Stemmer.a_4)
        bra == Len(word) - Len(m[1])
        kept == SubSeq(word, 1, bra)
        ending == find_among_b(kept, Stemmer.a_3)
    IN IF m[2] = 0 THEN word
       ELSE IF m[2] = 1
       THEN (IF i_p1 <= bra THEN kept \o <<"e", "e">> ELSE word)
       ELSE IF ~\E i \in 1..bra : word[i] \in Stemmer.g_v THEN word
       ELSE IF ending[2] = 1 THEN kept \o <<"e">>
       ELSE IF ending[2] = 2 THEN SubSeq(kept, 1, bra - 1)
       ELSE IF bra = i_p1 /\ r_shortv(kept, bra) THEN kept \o <<"e">>
       ELSE kept

r_step_1c(word) ==
    LET n == Len(word)
    IN IF n >= 3 /\ word[n] \in {"y", "Y"} /\ word[n - 1] \notin Stemmer.g_v
       THEN SubSeq(word, 1, n - 1) \o <<"i">>
       ELSE word

r_step_2(word, i_p1) ==
    LET slices ==
            (1 :> <<"t", "i", "o", "n">>) @@ (2 :> <<"e", "n", "c", "e">>)
            @@ (3 :> <<"a", "n", "c", "e">>) @@ (4 :> <<"a", "b", "l", "e">>)
            @@ (5 :> <<"e", "n", "t">>) @@ (6 :> <<"i", "z", "e">>)
            @@ (7 :> <<"a", "t", "e">>) @@ (8 :> <<"a", "l">>)
            @@ (9 :> <<"f", "u", "l">>) @@ (10 :> <<"o", "u", "s">>)
            @@ (11 :> <<"i", "v", "e">>) @@ (12 :> <<"b", "l", "e">>)
            @@ (13 :> <<"o", "g">>) @@ (14 :> <<"f", "u", "l">>)
            @@ (15 :> <<"l", "e", "s", "s">>) @@ (16 :> <<>>)
        m == find_among_b(word, Stemmer.a_5)
        bra == Len(word) - Len(m[1])
        kept == SubSeq(word, 1, bra)
    IN IF m[2] = 0 \/ ~(i_p1 <= bra) THEN word
       ELSE IF m[2] = 13 /\ ~(bra >= 1 /\ word[bra] = "l") THEN word
       ELSE IF m[2] = 16 /\ ~(bra >= 1 /\ word[bra] \in Stemmer.g_valid_LI) THEN word
       ELSE kept \o slices[m[2]]

r_step_3(word, i_p1, i_p2) ==
    LET slices ==
            (1 :> <<"t", "i", "o", "n">>) @@ (2 :> <<"a", "t", "e">>)
            @@ (3 :> <<"a", "l">>) @@ (4 :> <<"i", "c">>) @@ (5 :> <<>>)
            @@ (6 :> <<>>)
        m == find_among_b(word, Stemmer.a_6)
        bra == Len(word) - Len(m[1])
        kept == SubSeq(word, 1, bra)
    IN IF m[2] = 0 \/ ~(i_p1 <= bra) THEN word
       ELSE IF m[2] = 6 /\ ~(i_p2 <= bra) THEN word
       ELSE kept \o slices[m[2]]

r_step_4(word, i_p2) ==
    LET m == find_among_b(word, Stemmer.a_7)
        bra == Len(word) - Len(m[1])
        kept == SubSeq(word, 1, bra)
    IN IF m[2] = 0 \/ ~(i_p2 <= bra) THEN word
       ELSE IF m[2] = 2 /\ ~(bra >= 1 /\ word[bra] \in {"s", "t"}) THEN word
       ELSE kept

r_step_5(word, i_p1, i_p2) ==
    LET m == find_among_b(word, Stemmer.a_8)
        bra == Len(word) - 1
        kept == SubSeq(word, 1, bra)
    IN IF m[2] = 0 THEN word
       ELSE IF m[2] = 1
       THEN (IF i_p2 <= bra \/ (i_p1 <= bra /\ ~r_shortv(word, bra))
             THEN kept ELSE word)
       ELSE (IF i_p2 <= bra /\ bra >= 1 /\ word[bra] = "l" THEN kept ELSE word)

r_postlude(word, B_Y_found) ==
    IF B_Y_found
    THEN [i \in DOMAIN word |-> IF word[i] = "Y" THEN "y" ELSE word[i]]
    ELSE word

\* r_exception1: the word is an entry of Stemmer.a_10.
r_exception1(word) ==
    LET slices ==
            (1 :> <<"s", "k", "i">>) @@ (2 :> <<"s", "k", "y">>)
            @@ (3 :> <<"d", "i", "e">>) @@ (4 :> <<"l", "i", "e">>)
            @@ (5 :> <<"t", "i", "e">>)
            @@ (6 :> <<"r", "e", "p", "l", "i", "c">>)
            @@ (7 :> <<"i", "m", "p", "o", "r", "t", "a", "n", "t">>)
            @@ (8 :> <<"i", "d", "l">>) @@ (9 :> <<"g", "e", "n", "t", "l">>)
            @@ (10 :> <<"u", "g", "l", "i">>)
            @@ (11 :> <<"e", "a", "r", "l", "i">>)
            @@ (12 :> <<"o", "n", "l", "i">>)
            @@ (13 :> <<"s", "i", "n", "g", "l">>)
        m == CHOOSE e \in Stemmer.a_10 : e[1] = word
    IN IF m[2] = -1 THEN [current |-> word, panicked |-> TRUE]
       ELSE [current |-> slices[m[2]], panicked |-> FALSE]

\* The value of an expression, computed once and handed to what follows.
Bind(value, Following(_)) == CHOOSE r \in {Following(v) : v \in {value}} : TRUE

\* StemmerContext::new(word).get(): the stem, or the panic of the call.
StemmerContextNew(word) ==
    IF \E e \in Stemmer.a_10 : e[1] = word THEN r_exception1(word)
    ELSE IF Len(word) < 3 THEN [current |-> word, panicked |-> FALSE]
    ELSE Bind(r_prelude(word), LAMBDA prelude :
         Bind(r_mark_regions(prelude.current), LAMBDA regions :
         Bind(r_step_1a(prelude.current), LAMBDA step_1a :
             IF step_1a.panicked THEN [current |-> word, panicked |-> TRUE]
             ELSE IF r_exception2(step_1a.current)
             THEN [current |-> r_postlude(step_1a.current, prelude.B_Y_found),
                   panicked |-> FALSE]
             ELSE Bind(r_step_1b(step_1a.current, regions.i_p1), LAMBDA step_1b :
                  Bind(r_step_1c(step_1b), LAMBDA step_1c :
                  Bind(r_step_2(step_1c, regions.i_p1), LAMBDA step_2 :
                  Bind(r_step_3(step_2, regions.i_p1, regions.i_p2), LAMBDA step_3 :
                  Bind(r_step_4(step_3, regions.i_p2), LAMBDA step_4 :
                  Bind(r_step_5(step_4, regions.i_p1, regions.i_p2), LAMBDA step_5 :
                      [current |-> r_postlude(step_5, prelude.B_Y_found),
                       panicked |-> FALSE])))))))))

\* stem(word) on a thread whose STEM_CACHE holds cache: the result of the
\* call and the cache after it.
stem_cached(cache, word) ==
    IF word \in ATOMIC_PHRASES
    THEN [result |-> [current |-> word, panicked |-> FALSE], cache |-> cache]
    ELSE IF word \in DOMAIN cache
    THEN [result |-> [current |-> cache[word], panicked |-> FALSE], cache |-> cache]
    ELSE LET stemmed == StemmerContextNew(word)
         IN [result |-> stemmed,
             cache |-> IF stemmed.panicked THEN cache
                       ELSE [x \in DOMAIN cache \cup {word} |->
                                IF x = word THEN stemmed.current ELSE cache[x]]]

MaxWordLen == 4

StemAlphabet == {"i", "l", "n", "o", "s", "y"}
\* The words stemmed: every word of the alphabet up to MaxWordLen letters
\* and the words of the documents and queries.
StemWords ==
    (SeqsUpTo(StemAlphabet, MaxWordLen) \ {<<>>}) \cup DOMAIN Porter2Stems
        \cup ATOMIC_PHRASES

\* stem(input_word), on a fresh thread or after an earlier pair of calls.
StemWord ==
    /\ stem_results = <<>> \/ Len(stem_results) = 2
    /\ LET call == stem_cached(stem_cache, input_word)
       IN /\ stem_results' = <<call.result>>
          /\ stem_cache' = call.cache
    /\ UNCHANGED <<input_word, parseVars, tokenizeVars, urlVars, trieVars, phraseVars,
                   indexVars, searchVars, serverVars>>

\* stem of what stem(input_word) returned.
StemStem ==
    /\ Len(stem_results) = 1
    /\ ~stem_results[1].panicked
    /\ LET call == stem_cached(stem_cache, stem_results[1].current)
       IN /\ stem_results' = Append(stem_results, call.result)
          /\ stem_cache' = call.cache
    /\ UNCHANGED <<input_word, parseVars, tokenizeVars, urlVars, trieVars, phraseVars,
                   indexVars, searchVars, serverVars>>

(***************************************************************************)
(* Query parsing (query.rs).  A string is the sequence of its characters.  *)
(***************************************************************************)
Quote == "\""
Space == " "
\* Characters of the model that PAT_TOKEN_SEPARATOR matches: neither word
\* characters nor "$", "%" or ".".
TokenSeparators == {Space, "-", Quote}

RECURSIVE Components(_)
\* PAT_TOKEN_SEPARATOR.split(text), without the empty pieces split leaves at
\* the ends, which tokenize emits nothing for.
Components(string) ==
    IF string = <<>> THEN <<>>
    ELSE IF Head(string) \in TokenSeparators THEN Components(Tail(string))
    ELSE LET run == CHOOSE n \in 1..Len(string) :
                        /\ \A i \in 1..n : string[i] \notin TokenSeparators
                        /\ n < Len(string) => string[n + 1] \in TokenSeparators
         IN <<SubSeq(string, 1, run)>>
                \o Components(SubSeq(string, run + 1, Len(string)))

RECURSIVE QueryParts(_)
\* PAT_QUERY_PARTS.find_iter(query_string): each double quote, and each
\* longest run of characters that are neither a quote nor whitespace.
QueryParts(string) ==
    IF string = <<>> THEN <<>>
    ELSE IF Head(string) = Space THEN QueryParts(Tail(string))
    ELSE IF Head(string) = Quote THEN << <<Quote>> >> \o QueryParts(Tail(string))
    ELSE LET run == CHOOSE n \in 1..Len(string) :
                        /\ \A i \in 1..n : string[i] \notin {Space, Quote}
                        /\ n < Len(string) => string[n + 1] \in {Space, Quote}
         IN <<SubSeq(string, 1, run)>>
                \o QueryParts(SubSeq(string, run + 1, Len(string)))

\* A variant that adds stop words too.
add_term_unfiltered(q, term) == [q EXCEPT !.terms = @ \cup {term}]

\* Query::add_term
add_term(q, term) ==
    IF is_stop_word(term) THEN q ELSE [q EXCEPT !.terms = @ \cup {term}]

\* Query::add_phrase
add_phrase(q, phrase) ==
    LET popped == IF phrase # <<>> /\ phrase[Len(phrase)] = Space
                  THEN SubSeq(phrase, 1, Len(phrase) - 1) ELSE phrase
        kept == SelectSeq(tokenize(Components(popped), FALSE),
                          LAMBDA term : ~is_stop_word(term))
    IN [q EXCEPT !.stemmed_phrases = Append(@, [i \in DOMAIN kept |-> stem(kept[i])]),
                 !.phrases = Append(@, popped)]

\* A variant that forgets a phrase left open at the end of the input.
DropOpenPhrase(q, phrase) == q

\* "if let Some(phrase) = phrase" after the loop of Query::new; phrase is
\* <<>> for None and <<s>> for Some(s).
AddOpenPhrase(q, phrase) ==
    IF phrase # <<>> THEN add_phrase(q, phrase[1]) ELSE q

RECURSIVE QueryLoop(_, _, _, _)
\* "for m in PAT_QUERY_PARTS.find_iter(query_string)" of Query::new.
QueryLoop(q, phrase, parts, i) ==
    IF i > Len(parts) THEN AddOpenPhrase(q, phrase)
    ELSE LET match_str == parts[i]
         IN IF phrase # <<>>
            THEN IF match_str = <<Quote>>
                 THEN QueryLoop(add_phrase(q, phrase[1]), <<>>, parts, i + 1)
                 ELSE QueryLoop(add_term(q, match_str),
                                <<phrase[1] \o match_str \o <<Space>> >>, parts, i + 1)
            ELSE IF match_str = <<Quote>>
                 THEN QueryLoop(q, << <<>> >>, parts, i + 1)
                 ELSE QueryLoop(add_term(q, match_str), <<>>, parts, i + 1)

\* Query::new
QueryNew(string, search_properties) ==
    QueryLoop([terms |-> {}, phrases |-> <<>>, stemmed_phrases |-> <<>>,
               search_properties |-> search_properties],
              <<>>, QueryParts(string), 1)

\* The query strings of the model: up to MaxQueryLen pieces, each a quote, a
\* blank or a word, no word next to a word (two words with nothing between
\* them are one longer word).
MaxQueryLen == 4
The == <<"T", "h", "e">>
RedFox == red \o <<"-">> \o fox
QueryWords == {fox, foxes, the, The, RedFox}
QueryPieces == {<<Quote>>, <<Space>>} \cup QueryWords
RECURSIVE Flatten(_)
Flatten(pieces) == IF pieces = <<>> THEN <<>> ELSE Head(pieces) \o Flatten(Tail(pieces))
QueryStrings ==
    {Flatten(ps) : ps \in {x \in SeqsUpTo(QueryPieces, MaxQueryLen) :
        \A i \in 1..(Len(x) - 1) : ~(x[i] \in QueryWords /\ x[i + 1] \in QueryWords)}}

\* Query::new(query_string, &[])
ParseQuery ==
    /\ parsed = <<>>
    /\ parsed' = <<QueryNew(query_string, <<>>)>>
    /\ UNCHANGED <<query_string, parsed_closed, tokenizeVars, stemVars, urlVars,
                   trieVars, phraseVars, indexVars, searchVars, serverVars>>

\* Query::new of the same string with one more double quote at its end.
ParseClosedQuery ==
    /\ parsed_closed = <<>>
    /\ parsed_closed' = <<QueryNew(Append(query_string, Quote), <<>>)>>
    /\ UNCHANGED <<query_string, parsed, tokenizeVars, stemVars, urlVars, trieVars,
                   phraseVars, indexVars, searchVars, serverVars>>

MaxTextLen == 3

Ops == <<"O", "p", "s">>
TokenizePieces ==
    {ops, cloud, manager, Ops, <<"x">>, <<"é">>, <<"$">>,
     <<"a", ".", "b", "c">>, manager \o <<".">>}
TokenizeTexts == SeqsUpTo(TokenizePieces, MaxTextLen)

TokenizeCall ==
    \E fuzzy \in BOOLEAN :
        /\ tokenized = <<>>
        /\ tokenized' = <<[fuzzy |-> fuzzy, tokens |-> tokenize(input_text, fuzzy)]>>
        /\ UNCHANGED <<input_text, parseVars, stemVars, urlVars, trieVars, phraseVars,
                       indexVars, searchVars, serverVars>>

ParseIdle == query_string = <<>> /\ parsed = <<>> /\ parsed_closed = <<>>
TokenizeIdle == input_text = <<>> /\ tokenized = <<>>
StemIdle == input_word = <<>> /\ stem_results = <<>> /\ stem_cache = <<>>
TextIdle == ParseIdle /\ TokenizeIdle /\ StemIdle

(***************************************************************************)
(* The index (fts.rs).  Hash maps are functions; f32 values the model keeps *)
(* are integers (field weights), tenths (closeness) or fractions.          *)
(***************************************************************************)
EmptyMap == [k \in {} |-> 0]

Get(m, k, default) == IF k \in DOMAIN m THEN m[k] ELSE default

Put(m, k, v) == [x \in DOMAIN m \cup {k} |-> IF x = k THEN v ELSE m[x]]

RECURSIVE SumOver(_, _)
\* The sum of f[x] over the domain elements in S.
SumOver(f, S) ==
    IF S = {} THEN 0
    ELSE LET x == CHOOSE y \in S : TRUE IN f[x] + SumOver(f, S \ {x})

StartsWith(word, p) == IsPrefix(p, word)

\* struct TermEntry; registered is the history of the register calls.
TermEntryNew ==
    [docs |-> <<>>, positions |-> EmptyMap, times_appeared |-> EmptyMap,
     registered |-> <<>>]

\* TermEntry::register
TermEntryRegister(entry, field_name, docid) ==
    [entry EXCEPT !.docs = Append(@, docid),
                  !.times_appeared = Put(@, field_name, Get(@, field_name, 0) + 1),
                  !.registered = Append(@, <<field_name, docid>>)]

\* A variant that records a position only for a document that has none yet.
add_first_token_position(entry, docid, token_id) ==
    IF docid \in DOMAIN entry.positions THEN entry
    ELSE [entry EXCEPT !.positions = Put(@, docid, <<token_id>>)]

\* TermEntry::add_token_position
add_token_position(entry, docid, token_id) ==
    [entry EXCEPT !.positions = Put(@, docid, Append(Get(@, docid, <<>>), token_id))]

\* DocumentEntry::new
DocumentEntryNew(number_of_tokens, term_frequencies) ==
    [len |-> number_of_tokens, term_frequencies |-> term_frequencies]

\* Field::new; length_weight 0.0 is the fraction 0/1.
FieldNew(name, weight) ==
    [name |-> name, documents |-> EmptyMap, weight |-> weight, total_tokens |-> 0,
     length_weight |-> [num |-> 0, den |-> 1]]

\* Field::compute_length_weight: documents.len() / n_terms, kept as a fraction
\* (0/0 is the NaN of a field without documents).
compute_length_weight(field) ==
    [field EXCEPT !.length_weight =
        [num |-> Cardinality(DOMAIN field.documents),
         den |-> SumOver([d \in DOMAIN field.documents |->
                             Cardinality(DOMAIN field.documents[d].term_frequencies)],
                         DOMAIN field.documents)]]

\* default_fields (main.rs)
default_fields ==
    <<FieldNew("text", 1), FieldNew("headings", 5), FieldNew("title", 10),
      FieldNew("tags", 75)>>

\* FTSIndex::new; finished 0 is Timespec::new(0, 0).
FTSIndexNew(fields) ==
    [fields |-> fields, trie |-> TrieNew, terms |-> EmptyMap, doc_id |-> 0,
     term_id |-> 0, documents |-> <<>>, link_graph |-> EmptyMap,
     inverse_link_graph |-> EmptyMap, url_to_id |-> EmptyMap,
     id_to_url |-> EmptyMap, incoming_neighbors |-> EmptyMap,
     outgoing_neighbors |-> EmptyMap, word_correlations |-> EmptyMap,
     search_property_aliases |-> EmptyMap, finished |-> 0, manifests |-> {}]

TextIsEmpty(text) == text = <<>> \/ text = << <<>> >>

RECURSIVE JoinSpace(_)
\* headings.join(" ") on texts: an empty heading leaves an empty component.
JoinSpace(texts) ==
    IF texts = <<>> THEN <<>>
    ELSE (IF Head(texts) = <<>> THEN << <<>> >> ELSE Head(texts))
             \o JoinSpace(Tail(texts))

RECURSIVE JoinWords(_)
\* words.join(" ") on words: one string.
JoinWords(words) ==
    IF words = <<>> THEN <<>>
    ELSE IF Len(words) = 1 THEN words[1]
    ELSE words[1] \o <<" ">> \o JoinWords(Tail(words))

\* ManifestDocument::get (manifest.rs): <<text>>, or <<>> for None.
ManifestDocumentGet(document, key) ==
    CASE key = "title" -> <<document.title>>
      [] key = "text" -> <<document.text>>
      [] key = "headings" -> <<JoinSpace(document.headings)>>
      [] key = "tags" -> <<document.tags>>
      [] OTHER -> <<>>

CorrelationCloseness == 9

\* FTSIndex::correlate_word on the word_correlations map.
correlate_word(word_correlations, word, synonym, closeness) ==
    LET parts == tokenize(<<word>>, FALSE)
        w == JoinWords([i \in DOMAIN parts |-> stem(parts[i])])
        pair == <<stem(synonym), closeness>>
        entry == Get(word_correlations, w, <<>>)
    IN Put(word_correlations, w,
           IF pair \in Range(entry) THEN entry ELSE Append(entry, pair))

RECURSIVE CorrelateAll(_, _, _)
\* "for (token, prefix_size, closeness) in correlations" of add.
CorrelateAll(word_correlations, correlations, i) ==
    IF i > Len(correlations) THEN word_correlations
    ELSE LET c == correlations[i]
         IN CorrelateAll(
                correlate_word(word_correlations,
                               SubSeq(c[1], c[2] + 1, Len(c[1])), c[1], c[3]),
                correlations, i + 1)

\* A variant that registers every occurrence.
AnyOccurrence(count) == TRUE

\* "if count == 0": the token's first occurrence in this field of the document.
FirstOccurrence(count) == count = 0

\* The body of the loop "for token in &tokens" of add.  acc holds what the
\* loop changes: trie, terms, term_id, correlations, term_frequencies,
\* number_of_tokens.
IndexToken(acc, raw, field_name, doc_id) ==
    IF is_stop_word(raw) THEN acc
    ELSE LET prefixed2 == StartsWith(raw, <<"%", "%">>)
             prefixed1 == StartsWith(raw, <<"$">>) \/ StartsWith(raw, <<"%">>)
             token == IF prefixed2 \/ prefixed1 THEN raw ELSE stem(raw)
             term_id == acc.term_id + 1
             count == Get(acc.term_frequencies, token, 0)
             entry0 == Get(acc.terms, token, TermEntryNew)
             entry1 == IF FirstOccurrence(count)
                       THEN TermEntryRegister(entry0, field_name, doc_id)
                       ELSE entry0
         IN [acc EXCEPT
                !.correlations =
                    IF prefixed2 THEN Append(@, <<raw, 2, CorrelationCloseness>>)
                    ELSE IF prefixed1 THEN Append(@, <<raw, 1, CorrelationCloseness>>)
                    ELSE @,
                !.number_of_tokens = @ + 1,
                !.term_id = term_id,
                !.term_frequencies = Put(@, token, count + 1),
                !.trie = IF FirstOccurrence(count)
                         THEN TrieInsert(@, token, doc_id)
                         ELSE @,
                !.terms = Put(@, token, add_token_position(entry1, doc_id, term_id))]

RECURSIVE IndexTokens(_, _, _, _, _)
IndexTokens(acc, toks, field_name, doc_id, i) ==
    IF i > Len(toks) THEN acc
    ELSE IndexTokens(IndexToken(acc, toks[i], field_name, doc_id),
                     toks, field_name, doc_id, i + 1)

\* A variant that leaves the counter at the position of the field's last
\* token.
NoBump(term_id) == term_id

\* "After each field, bump by one to prevent accidental adjacency":
\* self.term_id += 1.
BumpAfterField(term_id) == term_id + 1

RECURSIVE IndexFields(_, _, _, _)
\* The loop "for field in &mut self.fields" of add from field k on.  b holds
\* fields, trie, terms, term_id, correlations.
IndexFields(b, document, doc_id, k) ==
    IF k > Len(b.fields) THEN b
    ELSE LET field == b.fields[k]
             text == ManifestDocumentGet(document, field.name)
         IN IF text = <<>> \/ TextIsEmpty(text[1])
            THEN IndexFields(b, document, doc_id, k + 1)
            ELSE LET acc == IndexTokens(
                                [trie |-> b.trie, terms |-> b.terms,
                                 term_id |-> b.term_id,
                                 correlations |-> b.correlations,
                                 term_frequencies |-> EmptyMap,
                                 number_of_tokens |-> 0],
                                tokenize(text[1], TRUE), field.name, doc_id, 1)
                 IN IndexFields(
                        [b EXCEPT
                            !.trie = acc.trie,
                            !.terms = acc.terms,
                            !.term_id = BumpAfterField(acc.term_id),
                            !.correlations = acc.correlations,
                            !.fields[k] =
                                [field EXCEPT
                                    !.total_tokens = @ + acc.number_of_tokens,
                                    !.documents =
                                        Put(@, doc_id,
                                            DocumentEntryNew(acc.number_of_tokens,
                                                             acc.term_frequencies))]],
                        document, doc_id, k + 1)

RECURSIVE PushIncomingLinks(_, _, _, _)
\* "for href in &mut document.links": inverse_link_graph[href].push(url).
PushIncomingLinks(inverse_link_graph, links, document_url, i) ==
    IF i > Len(links) THEN inverse_link_graph
    ELSE PushIncomingLinks(
             Put(inverse_link_graph, links[i],
                 Append(Get(inverse_link_graph, links[i], <<>>), document_url)),
             links, document_url, i + 1)

\* DocID::inc
DocIDInc(id) == id + 1

\* A variant that takes the document's ID after the increment.
DocIdAfterInc(ix) == DocIDInc(ix.doc_id)

\* "let doc_id = self.doc_id": the ID add gives the document.
DocIdOfAdd(ix) == ix.doc_id

\* FTSIndex::add
FTSIndexAdd(ix, document, include_in_global_search, search_property) ==
    LET doc_id == DocIdOfAdd(ix)
        document_url == normalize_url(document.url)
        links == [i \in DOMAIN document.links |-> normalize_url(document.links[i])]
        b == IndexFields([fields |-> ix.fields, trie |-> ix.trie,
                          terms |-> ix.terms, term_id |-> ix.term_id,
                          correlations |-> <<>>],
                         document, doc_id, 1)
    IN [ix EXCEPT
           !.doc_id = DocIDInc(ix.doc_id),
           !.inverse_link_graph = PushIncomingLinks(@, links, document_url, 1),
           !.link_graph = Put(@, document_url, links),
           !.url_to_id = Put(@, document_url, doc_id),
           !.id_to_url = Put(@, doc_id, document_url),
           !.fields = b.fields,
           !.trie = b.trie,
           !.terms = b.terms,
           !.term_id = b.term_id,
           !.word_correlations = CorrelateAll(@, b.correlations, 1),
           !.documents =
               Append(@, [_id |-> doc_id, url |-> document_url,
                          title |-> document.title, preview |-> document.preview,
                          include_in_global_search |-> include_in_global_search,
                          search_property |-> search_property]),
           !.manifests = @ \cup {search_property}]

\* FTSIndex::alias_search_property
alias_search_property(ix, alias, search_property) ==
    [ix EXCEPT !.search_property_aliases = Put(@, alias, search_property)]

\* The documents a list of URLs resolves to through url_to_id.
ResolveUrls(ix, urls) ==
    {ix.url_to_id[u] : u \in {x \in Range(urls) : x \in DOMAIN ix.url_to_id}}

\* A variant that walks url_to_id instead of id_to_url.
FinishedIdsByUrl(ix) == {ix.url_to_id[u] : u \in DOMAIN ix.url_to_id}

\* The documents FTSIndex::finish makes adjacency lists for: the keys of
\* id_to_url.
FinishedIds(ix) == DOMAIN ix.id_to_url

\* FTSIndex::finish at time now
FTSIndexFinish(ix, now) ==
    [ix EXCEPT
        !.fields = [k \in DOMAIN ix.fields |-> compute_length_weight(ix.fields[k])],
        !.outgoing_neighbors =
            [d \in FinishedIds(ix) |->
                SetToSeq(ResolveUrls(ix, Get(ix.link_graph, ix.id_to_url[d], <<>>)))],
        !.incoming_neighbors =
            [d \in FinishedIds(ix) |->
                SetToSeq(ResolveUrls(ix, Get(ix.inverse_link_graph, ix.id_to_url[d],
                                             <<>>)))],
        !.finished = now]

(***************************************************************************)
(* The documents of the model.  URLs are built from the base "w" and the   *)
(* slugs "a", "b", "c"; "z" is the URL of no document.                     *)
(***************************************************************************)
MaxDocs == 3

Foxes == <<"F", "o", "x", "e", "s">>

UrlOf(slug) == <<"w", Slash, slug>>

ManifestDocument(slug, doc_url, title, text, headings, links) ==
    [slug |-> slug, title |-> title, tags |-> <<>>, headings |-> headings,
     text |-> text, preview |-> <<>>, links |-> links, url |-> doc_url]

\* Each document with the include_in_global_search flag and the search
\* property of its manifest.
PoolDocuments ==
    {[document |-> ManifestDocument("a", UrlOf("a"), <<Fox>>, <<Foxes, the>>, <<>>,
                       <<UrlOf("b") \o <<Slash, IndexHtml>>, UrlOf("z")>>),
      include_in_global_search |-> TRUE, search_property |-> "p1"],
     [document |-> ManifestDocument("b", UrlOf("b"), <<red, fox>>, <<>>, <<>>,
                       <<UrlOf("a")>>),
      include_in_global_search |-> TRUE, search_property |-> "p1"],
     [document |-> ManifestDocument("a/index.html",
                       UrlOf("a") \o <<Slash, IndexHtml>>, <<raven>>,
                       <<quoth, the, raven>>, <<>>, <<>>),
      include_in_global_search |-> FALSE, search_property |-> "p2"],
     [document |-> ManifestDocument("c", UrlOf("c"), <<>>, <<fox>>, << <<red>> >>,
                       <<UrlOf("a")>>),
      include_in_global_search |-> FALSE, search_property |-> "p2"]}

SearchProperties == {"p1", "p2"}
Aliases == {"docs"}

\* handle_refresh adds every document before it calls finish.
AddDocument ==
    \E e \in PoolDocuments :
        /\ index.finished = 0
        /\ index.doc_id < MaxDocs
        /\ index' = FTSIndexAdd(index, e.document, e.include_in_global_search,
                                e.search_property)
        /\ added' = Append(added, e)
        /\ UNCHANGED <<clock, urlVars, trieVars, phraseVars, searchVars, serverVars, textVars>>

AliasSearchProperty ==
    \E a \in Aliases, p \in SearchProperties :
        /\ index.finished = 0
        /\ index' = alias_search_property(index, a, p)
        /\ UNCHANGED <<added, clock, urlVars, trieVars, phraseVars, searchVars, serverVars, textVars>>

FinishIndex ==
    /\ index.finished = 0
    /\ clock' = clock + 1
    /\ index' = FTSIndexFinish(index, clock')
    /\ UNCHANGED <<added, urlVars, trieVars, phraseVars, searchVars, serverVars, textVars>>

IndexIdle == index = FTSIndexNew(default_fields) /\ added = <<>> /\ clock = 0

(***************************************************************************)
(* Documents of prose: one text field of one or two words, among them a    *)
(* stop word and an inflected word that exception1 of the stemmer maps to  *)
(* a stop word.                                                            *)
(***************************************************************************)
MaxProse == 2

ProseWords == {importance, the, fox, foxes}
ProseTexts == {<<w>> : w \in ProseWords} \cup (ProseWords \X ProseWords)
ProseSlugs == <<"a", "b", "c", "d">>

AddProse ==
    \E text \in ProseTexts :
        /\ index.finished = 0
        /\ Len(added) < MaxProse
        /\ Len(added) < Len(ProseSlugs)
        /\ LET slug == ProseSlugs[Len(added) + 1]
               e == [document |-> ManifestDocument(slug, UrlOf(slug), <<>>, text,
                                                   <<>>, <<>>),
                     include_in_global_search |-> TRUE,
                     search_property |-> "p1"]
           IN /\ index' = FTSIndexAdd(index, e.document,
                                      e.include_in_global_search, e.search_property)
              /\ added' = Append(added, e)
        /\ UNCHANGED <<clock, urlVars, trieVars, phraseVars, searchVars, serverVars, textVars>>

(***************************************************************************)
(* Search (fts.rs).  The model does not compute f32 arithmetic (log2,      *)
(* sqrt, the HITS iteration).  A search is given the outcomes of that      *)
(* arithmetic, fp: for every document the sign of the relevancy it         *)
(* accumulates (-1, 0 or 1; a NaN compares like -1 in "> 0.0"), and the    *)
(* final score hits computes for it, a rank or NaN.                        *)
(***************************************************************************)
MAX_MATCHES == 150

\* SearchMatch::new
SearchMatchNew(docid) ==
    [_id |-> docid, relevancy_score |-> 0, terms |-> {}, incoming_neighbors |-> {},
     outgoing_neighbors |-> {}]

RECURSIVE ApplyCorrelations(_, _, _)
\* "for &(ref correlation, weight) in correlations" of collect_correlations.
ApplyCorrelations(stemmed_terms, correlations, i) ==
    IF i > Len(correlations) THEN stemmed_terms
    ELSE ApplyCorrelations(
             Put(stemmed_terms, correlations[i][1],
                 Max(Get(stemmed_terms, correlations[i][1], 0), correlations[i][2])),
             correlations, i + 1)

RECURSIVE CorrelatePair(_, _, _, _)
\* "for term in pair" of collect_correlations.
CorrelatePair(ix, stemmed_terms, pair, i) ==
    IF i > Len(pair) THEN stemmed_terms
    ELSE CorrelatePair(
             ix,
             IF pair[i] \in DOMAIN ix.word_correlations
             THEN ApplyCorrelations(stemmed_terms, ix.word_correlations[pair[i]], 1)
             ELSE stemmed_terms,
             pair, i + 1)

RECURSIVE CorrelateTerms(_, _, _, _)
\* "for i in 0..terms.len()" of collect_correlations.
CorrelateTerms(ix, terms, stemmed_terms, i) ==
    IF i > Len(terms) THEN stemmed_terms
    ELSE LET first == stem(terms[i])
             pair == IF i < Len(terms)
                     THEN <<first, first \o <<" ">> \o stem(terms[i + 1])>>
                     ELSE <<first>>
         IN CorrelateTerms(ix, terms, CorrelatePair(ix, stemmed_terms, pair, 1), i + 1)

\* FTSIndex::collect_correlations: stemmed term -> weight in tenths.
collect_correlations(ix, terms) ==
    CorrelateTerms(ix, terms, [t \in {stem(terms[i]) : i \in DOMAIN terms} |-> 10], 1)

RECURSIVE collect_matches_from_trie(_, _)
\* FTSIndex::collect_matches_from_trie: <<doc_id, matched keys>> pairs.
collect_matches_from_trie(ix, terms) ==
    IF terms = <<>> THEN <<>>
    ELSE LET hit == TrieSearch(ix.trie, Head(terms))
             ids == SetToSeq(DOMAIN hit)
         IN [i \in DOMAIN ids |-> <<ids[i], hit[ids[i]]>>]
                \o collect_matches_from_trie(ix, Tail(terms))

\* A variant that takes every search property literally.
LiteralProperties(ix, q) == Range(q.search_properties)

\* The alias-resolved search properties of the query.
ResolvedProperties(ix, q) ==
    {Get(ix.search_property_aliases, q.search_properties[i], q.search_properties[i]) :
        i \in DOMAIN q.search_properties}

\* The filter of FTSIndex::search on a document of the table.
PassesPropertyFilter(search_properties, doc) ==
    IF search_properties = {}
    THEN doc.include_in_global_search
    ELSE doc.search_property \in search_properties

RECURSIVE ScoreMatches(_, _, _, _, _, _)
\* The loop over collect_matches_from_trie's pairs in FTSIndex::search; the
\* relevancy the match accumulates is fp's.
ScoreMatches(ix, result_set, search_properties, f, matches, i) ==
    IF i > Len(result_set) THEN matches
    ELSE LET doc_id == result_set[i][1]
             doc == ix.documents[doc_id + 1]
         IN ScoreMatches(
                ix, result_set, search_properties, f,
                IF ~PassesPropertyFilter(search_properties, doc) THEN matches
                ELSE Put(matches, doc_id,
                         [Get(matches, doc_id, SearchMatchNew(doc_id)) EXCEPT
                             !.relevancy_score = f[doc_id].relevancy,
                             !.terms = @ \cup Range(result_set[i][2])]),
                i + 1)

\* The filter closure of FTSIndex::search for a query with phrases.
PassesPhraseFilter(ix, q, search_match) ==
    IF \E term \in search_match.terms :
           \/ term \notin DOMAIN ix.terms
           \/ search_match._id \notin DOMAIN ix.terms[term].positions
    THEN FALSE
    ELSE check_phrases(q.stemmed_phrases,
                       [term \in search_match.terms |->
                           ix.terms[term].positions[search_match._id]])

\* A variant that puts a new node in the place of every neighbor, also of one
\* that is in the set already.
MatchSetInsertReplacing(matches, search_match, ix) ==
    LET incoming == Range(Get(ix.incoming_neighbors, search_match._id, <<>>))
        outgoing == Range(Get(ix.outgoing_neighbors, search_match._id, <<>>))
        expanded == [d \in DOMAIN matches \cup incoming \cup outgoing |->
                        IF d \in incoming \cup outgoing THEN SearchMatchNew(d)
                        ELSE matches[d]]
    IN Put(expanded, search_match._id,
           [search_match EXCEPT !.incoming_neighbors = @ \cup incoming,
                                !.outgoing_neighbors = @ \cup outgoing])

\* MatchSet::insert
MatchSetInsert(matches, search_match, ix) ==
    LET incoming == Range(Get(ix.incoming_neighbors, search_match._id, <<>>))
        outgoing == Range(Get(ix.outgoing_neighbors, search_match._id, <<>>))
        expanded == [d \in DOMAIN matches \cup incoming \cup outgoing |->
                        IF d \in DOMAIN matches THEN matches[d] ELSE SearchMatchNew(d)]
    IN Put(expanded, search_match._id,
           [search_match EXCEPT !.incoming_neighbors = @ \cup incoming,
                                !.outgoing_neighbors = @ \cup outgoing])

RECURSIVE MatchSetInsertAll(_, _, _, _)
\* "for search_match in root_set.drain(..)" of FTSIndex::search.
MatchSetInsertAll(matches, root_set, ix, i) ==
    IF i > Len(root_set) THEN matches
    ELSE MatchSetInsertAll(MatchSetInsert(matches, root_set[i], ix), root_set, ix, i + 1)

\* MatchSet::get_neighbors: each set is extended with a copy of itself.
get_neighbors(matches, doc_id) ==
    [matches EXCEPT ![doc_id].incoming_neighbors = @ \cup @,
                    ![doc_id].outgoing_neighbors = @ \cup @]

RECURSIVE MatchSetFinish(_, _, _)
\* MatchSet::finish
MatchSetFinish(matches, root_ids, i) ==
    IF i > Len(root_ids) THEN matches
    ELSE MatchSetFinish(get_neighbors(matches, root_ids[i]), root_ids, i + 1)

\* A variant that keeps the matches without relevancy.
KeepsEveryMatch(search_match) == TRUE

\* "Cut anything with zero relevancy": m.relevancy_score > 0.0
KeepsMatch(search_match) == search_match.relevancy_score > 0

\* A variant that sorts ascending (a compared with b).
ScoreAscending(a, b) == a.rank < b.rank

\* The comparator of sort_unstable_by, b's score against a's: a goes first
\* when its score is the greater.
ScoreDescending(a, b) == a.rank > b.rank

\* matches.sort_unstable_by(...) for scores that compare: a match stands
\* after the matches that go first.  Of the orders the unstable sort may
\* leave equal scores in, this is the one by document ID.
SortByScore(ids, score) ==
    LET first(a, b) ==
            \/ ScoreDescending(score[a], score[b])
            \/ /\ ~ScoreDescending(score[b], score[a])
               /\ a < b
        placed == {<<Cardinality({e \in ids : first(e, d)}) + 1, d>> : d \in ids}
    IN [i \in 1..Cardinality(ids) |-> (CHOOSE p \in placed : p[1] = i)[2]]

\* matches.truncate(n)
Truncate(ids, n) == IF Len(ids) > n THEN SubSeq(ids, 1, n) ELSE ids

\* MatchSet::hits from "Cut anything with zero relevancy" on; the scores are
\* fp's.  partial_cmp(..).unwrap() panics when two or more matches are sorted
\* and one has a NaN score.
MatchSetHits(matches, f) ==
    LET kept == {d \in DOMAIN matches : KeepsMatch(matches[d])}
        score == [d \in kept |-> f[d].score]
        panics == Cardinality(kept) >= 2 /\ \E d \in kept : score[d].nan
        sorted == Truncate(SortByScore(kept, score), MAX_MATCHES)
    IN IF panics THEN [panicked |-> TRUE, ids |-> <<>>, scores |-> <<>>]
       ELSE [panicked |-> FALSE, ids |-> sorted,
             scores |-> [i \in DOMAIN sorted |-> score[sorted[i]]]]

\* FTSIndex::search up to the root set: the matches that passed the property
\* filter and the phrase filter, as match_set.drain() yields them.
RootSet(ix, q, f) ==
    LET search_properties == ResolvedProperties(ix, q)
        original_terms == SetToSeq(q.terms)
        stemmed_terms == collect_correlations(ix, original_terms)
        scored == ScoreMatches(
                      ix,
                      collect_matches_from_trie(ix, SetToSeq(DOMAIN stemmed_terms)),
                      search_properties, f, EmptyMap, 1)
        drained == SetToSeq(DOMAIN scored)
        all == [i \in DOMAIN drained |-> scored[drained[i]]]
    IN IF q.phrases = <<>> THEN all
       ELSE SelectSeq(all, LAMBDA m : PassesPhraseFilter(ix, q, m))

\* "for search_match in root_set.drain(..)" and match_set.finish(&root_ids)
\* of FTSIndex::search.
BaseSetOf(ix, root_set) ==
    MatchSetFinish(MatchSetInsertAll(EmptyMap, root_set, ix, 1),
                   [i \in DOMAIN root_set |-> root_set[i]._id], 1)

\* FTSIndex::search up to the MatchSet handed to hits.
BaseSet(ix, q, f) == BaseSetOf(ix, RootSet(ix, q, f))

\* FTSIndex::search: what hits returns, mapped to the documents.
FTSIndexSearch(ix, matches, f) ==
    LET h == MatchSetHits(matches, f)
    IN [panicked |-> h.panicked,
        documents |-> [i \in DOMAIN h.ids |-> ix.documents[h.ids[i] + 1]]]

\* Query (query.rs) as Query::new leaves it.
Query(terms, phrases, stemmed, search_properties) ==
    [terms |-> terms, phrases |-> phrases, stemmed_phrases |-> stemmed,
     search_properties |-> search_properties]

\* The queries of the model: "fox", "red fox", "raven" and "\"quoth the
\* raven\"", each with the searchProperties below.
QueryTexts ==
    {Query({fox}, <<>>, <<>>, <<>>),
     Query({red, fox}, <<>>, <<>>, <<>>),
     Query({raven}, <<>>, <<>>, <<>>),
     Query({quoth, raven}, << <<quoth, the, raven>> >>, << <<quoth, raven>> >>, <<>>)}
QueryProperties == {<<>>, <<"p1">>, <<"docs">>, <<"p2">>}
Queries ==
    {[q EXCEPT !.search_properties = p] : q \in QueryTexts, p \in QueryProperties}

\* The outcomes of the arithmetic for one document: a relevancy that is cut
\* (negative, NaN or zero), or a positive one with a NaN or a ranked score.
Ranks == {1, 2}
FloatOutcome ==
    {[relevancy |-> r, score |-> [nan |-> FALSE, rank |-> 0]] : r \in {-1, 0}}
    \cup {[relevancy |-> 1, score |-> [nan |-> TRUE, rank |-> 0]]}
    \cup {[relevancy |-> 1, score |-> [nan |-> FALSE, rank |-> k]] : k \in Ranks}
FloatOutcomes(ix) == [0..(ix.doc_id - 1) -> FloatOutcome]

RECURSIVE AddAll(_, _)
\* The index after FTSIndex::add on each entry of a list, in order.
AddAll(ix, entries) ==
    IF entries = <<>> THEN ix
    ELSE AddAll(FTSIndexAdd(ix, Head(entries).document,
                            Head(entries).include_in_global_search,
                            Head(entries).search_property),
                Tail(entries))

MaxCorpus == 3
PoolOrder == SetToSeq(PoolDocuments)
Reverse(c) == [i \in DOMAIN c |-> c[Len(c) + 1 - i]]
\* The manifests searched: up to MaxCorpus different documents of the pool,
\* in the order of the pool or in the opposite order.
Corpora ==
    LET ordered == {c \in SeqsUpTo(DOMAIN PoolOrder, MaxCorpus) :
                       \A i, j \in DOMAIN c : i < j => c[i] < c[j]}
    IN UNION {{[i \in DOMAIN c |-> PoolOrder[c[i]]],
               Reverse([i \in DOMAIN c |-> PoolOrder[c[i]]])} : c \in ordered}
\* The index handle_refresh builds of a manifest, with the alias "docs" for
\* "p1".
FinishedIndex(c) ==
    FTSIndexFinish(
        AddAll(alias_search_property(FTSIndexNew(default_fields), "docs", "p1"), c), 1)

SearchCall ==
    \E q \in Queries, f \in FloatOutcomes(index) :
        /\ index.finished # 0
        /\ result = <<>>
        /\ query' = <<q>>
        /\ fp' = <<f>>
        /\ match_set' = BaseSet(index, q, f)
        /\ hits_result' = <<MatchSetHits(match_set', f)>>
        /\ result' = <<FTSIndexSearch(index, match_set', f)>>
        /\ UNCHANGED <<indexVars, urlVars, trieVars, phraseVars, serverVars, textVars>>

\* Before finish every field has the length_weight 0.0 of Field::new, so each
\* product in a relevancy is 0.0, -0.0 or NaN: no relevancy is above zero.
UnfinishedOutcome == {o \in FloatOutcome : o.relevancy <= 0}
UnfinishedOutcomes(ix) == [0..(ix.doc_id - 1) -> UnfinishedOutcome]
EarlyQueries == {q \in Queries : q.search_properties \in {<<>>, <<"p1">>}}

\* FTSIndex::search on an index finish was not called on.
EarlySearchCall ==
    \E q \in EarlyQueries, f \in UnfinishedOutcomes(index) :
        /\ index.finished = 0
        /\ result = <<>>
        /\ query' = <<q>>
        /\ fp' = <<f>>
        /\ match_set' = BaseSet(index, q, f)
        /\ hits_result' = <<MatchSetHits(match_set', f)>>
        /\ result' = <<FTSIndexSearch(index, match_set', f)>>
        /\ UNCHANGED <<indexVars, urlVars, trieVars, phraseVars, serverVars, textVars>>

\* Alias names a manifest can declare: a name of no manifest and the search
\* property of another manifest.
AliasNames == {"docs", "p1"}
AliasQueryProperties == {<<"docs">>, <<"p1">>, <<"p2">>, <<"other">>}
AliasQueries ==
    {[q EXCEPT !.search_properties = p] : q \in QueryTexts, p \in AliasQueryProperties}
\* The corpora of MaxCorpus documents, in the order of the pool.
AliasCorpora ==
    {c \in Corpora : Len(c) = IF MaxCorpus <= Len(PoolOrder) THEN MaxCorpus ELSE Len(PoolOrder)
                         /\ \E k \in DOMAIN PoolOrder : c[1] = PoolOrder[k]
                              /\ \A j \in 1..(k - 1) : PoolOrder[j] \notin Range(c)}
\* Outcomes of the arithmetic without NaN.
AliasOutcomes(ix) ==
    [0..(ix.doc_id - 1) -> {o \in FloatOutcome : o.relevancy >= 0 /\ ~o.score.nan}]

\* alias_search_property for an alias of a manifest.
RegisterAlias ==
    \E a \in AliasNames, p \in SearchProperties :
        /\ index.finished = 0
        /\ index' = alias_search_property(index, a, p)
        /\ UNCHANGED <<added, clock, urlVars, trieVars, phraseVars, searchVars, serverVars, textVars>>

AliasSearchCall ==
    \E q \in AliasQueries, f \in AliasOutcomes(index) :
        /\ index.finished # 0
        /\ result = <<>>
        /\ query' = <<q>>
        /\ fp' = <<f>>
        /\ match_set' = BaseSet(index, q, f)
        /\ hits_result' = <<MatchSetHits(match_set', f)>>
        /\ result' = <<FTSIndexSearch(index, match_set', f)>>
        /\ UNCHANGED <<indexVars, urlVars, trieVars, phraseVars, serverVars, textVars>>

(***************************************************************************)
(* MatchSet::hits by the classes of its f32 values.  An authority, a hub   *)
(* score, a norm and a maximum is "zero" (0.0), "positive" (finite and     *)
(* above zero) or "nan"; a final score is "finite", "inf" or "nan".  The   *)
(* class of every result follows from the classes of the operands by the   *)
(* IEEE 754 rules: 0.0 / 0.0 is NaN, a positive value over 0.0 is +inf.    *)
(***************************************************************************)
\* "authority_score += hub_scores[..]", "authority_norm += ..powf(2.0)" and
\* its sqrt: the class of a sum of values that are not negative.
SumClass(classes) ==
    IF "nan" \in classes THEN "nan"
    ELSE IF "positive" \in classes THEN "positive" ELSE "zero"

\* "*authority_score /= authority_norm", "*hub_score /= hub_norm": a norm of
\* 0.0 has only 0.0 to divide.
DivideByNorm(class, norm) ==
    IF class = "nan" \/ norm \in {"nan", "zero"} THEN "nan" ELSE class

\* One pass of "for _ in 0..max_iterations".
HitsIteration(matches, scores) ==
    LET match_ids == DOMAIN matches
        authority_sum == [d \in match_ids |->
            SumClass({scores.hub_scores[i] : i \in matches[d].incoming_neighbors})]
        authority_norm == SumClass({authority_sum[d] : d \in match_ids})
        authority_scores == [d \in match_ids |->
            DivideByNorm(authority_sum[d], authority_norm)]
        hub_sum == [d \in match_ids |->
            SumClass({authority_scores[o] : o \in matches[d].outgoing_neighbors})]
        hub_norm == SumClass({hub_sum[d] : d \in match_ids})
    IN [authority_scores |-> authority_scores,
        hub_scores |-> [d \in match_ids |-> DivideByNorm(hub_sum[d], hub_norm)]]

RECURSIVE HitsIterations(_, _, _)
\* The loop of hits left after n passes.
HitsIterations(matches, scores, n) ==
    IF n = 0 THEN scores
    ELSE HitsIterations(matches, HitsIteration(matches, scores), n - 1)

\* "relevancy_score / max_relevancy_score", "authority_score /
\* max_authority_score" of compute_score, for operands that are not NaN.
Quotient(class, maximum) ==
    IF maximum = "zero" THEN (IF class = "zero" THEN "nan" ELSE "inf") ELSE "finite"

\* SearchMatch::compute_score: log2 of a quotient plus 1.0 keeps the class of
\* the quotient, and so does the sum of the two logarithms, neither being
\* negative.
compute_score(relevancy_score, max_relevancy_score, authority_score, max_authority_score) ==
    LET quotients == {Quotient(relevancy_score, max_relevancy_score),
                       Quotient(authority_score, max_authority_score)}
    IN IF "nan" \in quotients THEN "nan"
       ELSE IF "inf" \in quotients THEN "inf" ELSE "finite"

\* MatchSet::hits after `rounds` passes of its loop.  f tells the matches
\* whose relevancy is below relevancy_score_threshold.  The penalty of a poor
\* relevancy subtracts a finite value and leaves the class of a score.
ClassHits(matches, f, rounds) ==
    LET match_ids == DOMAIN matches
        ones == [d \in match_ids |-> "positive"]
        converged == HitsIterations(matches,
                         [authority_scores |-> ones, hub_scores |-> ones],
                         rounds).authority_scores
        kept == {d \in match_ids : KeepsMatch(matches[d])}
        \* "if authority_score.is_nan() { *authority_score = 1e-10; }"
        authority_scores == [d \in kept |->
            IF converged[d] = "nan" THEN "positive" ELSE converged[d]]
        counted == {d \in kept : ~f[d].below}
        max_relevancy_score == IF counted = {} THEN "zero" ELSE "positive"
        max_authority_score == SumClass({authority_scores[d] : d \in counted})
        score == [d \in kept |->
            compute_score("positive", max_relevancy_score,
                          authority_scores[d], max_authority_score)]
    IN [panicked |-> Cardinality(kept) >= 2 /\ \E d \in kept : score[d] = "nan",
        max_relevancy_score |-> max_relevancy_score,
        max_authority_score |-> max_authority_score,
        authority_scores |-> authority_scores,
        scores |-> score]

\* A page that links to a page nothing else links to, both about foxes, and
\* the pages of the pool that link to each other.
RankedDocuments ==
    {[document |-> ManifestDocument("hub", UrlOf("hub"), <<fox>>, <<>>, <<>>,
                       <<UrlOf("leaf")>>),
      include_in_global_search |-> TRUE, search_property |-> "p1"],
     [document |-> ManifestDocument("leaf", UrlOf("leaf"), <<>>, <<fox, red>>, <<>>,
                       <<>>),
      include_in_global_search |-> TRUE, search_property |-> "p1"]}
    \cup {e \in PoolDocuments : e.include_in_global_search}
MaxRanked == 2
RankedCorpora ==
    {c \in SeqsUpTo(RankedDocuments, MaxRanked) :
        \A i, j \in DOMAIN c : i # j => c[i] # c[j]}
RankedQueries == {q \in Queries : q.search_properties = <<>> /\ q.phrases = <<>>}
MaxRounds == 3

\* What the arithmetic is left to tell of one document: the sign of its
\* relevancy and whether the relevancy is below the threshold.
RankOutcome == [relevancy : {-1, 0, 1}, below : BOOLEAN]
\* compute_relevancy_threshold is the standard deviation of the relevancies
\* kept: NaN for one match, which no relevancy is below, and for more than one
\* less than the greatest of them.
ThresholdAllows(matches, f) ==
    LET kept == {d \in DOMAIN matches : KeepsMatch(matches[d])}
    IN /\ \A d \in DOMAIN f : f[d].below => d \in kept
       /\ kept # {} => \E d \in kept : ~f[d].below
       /\ Cardinality(kept) = 1 => \A d \in kept : ~f[d].below

\* FTSIndex::search with hits by classes.  The first pass of the loop of hits
\* never ends it when a match has an incoming neighbor (the norm is 1.0 or
\* more away from 0.0), and without one every pass leaves the same classes.
RankedSearchCall ==
    \E q \in RankedQueries, f \in [0..(index.doc_id - 1) -> RankOutcome],
       rounds \in 2..MaxRounds :
        /\ index.finished # 0
        /\ result = <<>>
        /\ ThresholdAllows(BaseSet(index, q, f), f)
        /\ query' = <<q>>
        /\ fp' = <<f>>
        /\ match_set' = BaseSet(index, q, f)
        /\ hits_result' = <<ClassHits(match_set', f, rounds)>>
        /\ result' = <<[panicked |-> hits_result'[1].panicked,
                        returned |-> IF hits_result'[1].panicked THEN {}
                                     ELSE {index.documents[d + 1] :
                                              d \in DOMAIN hits_result'[1].scores}]>>
        /\ UNCHANGED <<indexVars, urlVars, trieVars, phraseVars, serverVars, textVars>>
(***************************************************************************)
(* Two executions of one search.  A HashSet or HashMap yields its elements *)
(* in an order of its own in every execution; the model has two such       *)
(* orders for every container, one the opposite of the other.  Both        *)
(* executions are given the same outcomes fp of the f32 arithmetic: the    *)
(* rounding of a sum taken in another order is not modelled.               *)
(***************************************************************************)
Iterate(S, reversed) == IF reversed THEN Reverse(SetToSeq(S)) ELSE SetToSeq(S)

\* The containers of FTSIndex::search and MatchSet::hits that are iterated:
\* original_terms, stemmed_terms.keys(), match_set.drain() and the
\* matches.values() that hits filters and sorts.
HashOrders == [terms : BOOLEAN, keys : BOOLEAN, drained : BOOLEAN, values : BOOLEAN]
InsertionOrder == [terms |-> FALSE, keys |-> FALSE, drained |-> FALSE, values |-> FALSE]

\* FTSIndex::search up to the MatchSet handed to hits, in one execution.
BaseSetIn(ix, q, f, order) ==
    LET search_properties == ResolvedProperties(ix, q)
        original_terms == Iterate(q.terms, order.terms)
        stemmed_terms == collect_correlations(ix, original_terms)
        scored == ScoreMatches(
                      ix,
                      collect_matches_from_trie(
                          ix, Iterate(DOMAIN stemmed_terms, order.keys)),
                      search_properties, f, EmptyMap, 1)
        drained == Iterate(DOMAIN scored, order.drained)
        all == [i \in DOMAIN drained |-> scored[drained[i]]]
        root_set == IF q.phrases = <<>> THEN all
                    ELSE SelectSeq(all, LAMBDA m : PassesPhraseFilter(ix, q, m))
        root_ids == [i \in DOMAIN root_set |-> root_set[i]._id]
    IN MatchSetFinish(MatchSetInsertAll(EmptyMap, root_set, ix, 1), root_ids, 1)

\* A variant that leaves the matches as matches.values() yielded them.
YieldedFirst(a, b, score, reversed) == IF reversed THEN a > b ELSE a < b

\* Where sort_unstable_by leaves a against b: the greater score first, and
\* equal scores as they were collected from matches.values().
SortedFirst(a, b, score, reversed) ==
    \/ ScoreDescending(score[a], score[b])
    \/ /\ ~ScoreDescending(score[b], score[a])
       /\ IF reversed THEN a > b ELSE a < b

\* matches.sort_unstable_by(...) in one execution.
SortByScoreIn(ids, score, reversed) ==
    LET placed == {<<Cardinality({e \in ids : SortedFirst(e, d, score, reversed)}) + 1, d>> :
                      d \in ids}
    IN [i \in 1..Cardinality(ids) |-> (CHOOSE p \in placed : p[1] = i)[2]]

\* MatchSet::hits from "Cut anything with zero relevancy" on, in one
\* execution.
MatchSetHitsIn(matches, f, order) ==
    LET kept == {d \in DOMAIN matches : KeepsMatch(matches[d])}
        score == [d \in kept |-> f[d].score]
        panics == Cardinality(kept) >= 2 /\ \E d \in kept : score[d].nan
        sorted == Truncate(SortByScoreIn(kept, score, order.values), MAX_MATCHES)
    IN IF panics THEN [panicked |-> TRUE, ids |-> <<>>, scores |-> <<>>]
       ELSE [panicked |-> FALSE, ids |-> sorted,
             scores |-> [i \in DOMAIN sorted |-> score[sorted[i]]]]

\* A page whose text has the operator "$fox", which add correlates with
\* "fox", and the pages of the pool that are searched globally.
TwiceDocuments ==
    {[document |-> ManifestDocument("d", UrlOf("d"), <<>>, <<dollar_fox, red>>, <<>>,
                       <<UrlOf("a")>>),
      include_in_global_search |-> TRUE, search_property |-> "p1"]}
    \cup {e \in PoolDocuments : e.include_in_global_search}
MaxTwice == 2
TwiceCorpora ==
    {c \in SeqsUpTo(TwiceDocuments, MaxTwice) :
        \A i, j \in DOMAIN c : i # j => c[i] # c[j]}
TwiceQueries == {q \in Queries : q.search_properties = <<>> /\ q.phrases = <<>>}
TwiceOutcomes(ix) == [0..(ix.doc_id - 1) -> {o \in FloatOutcome : o.relevancy >= 0}]

\* FTSIndex::search called twice with one query on one index.
SearchTwice ==
    \E q \in TwiceQueries, f \in TwiceOutcomes(index), order \in HashOrders :
        /\ index.finished # 0
        /\ result = <<>>
        /\ query' = <<q>>
        /\ fp' = <<f, InsertionOrder, order>>
        /\ match_set' = <<BaseSetIn(index, q, f, InsertionOrder),
                          BaseSetIn(index, q, f, order)>>
        /\ hits_result' = <<MatchSetHitsIn(match_set'[1], f, InsertionOrder),
                            MatchSetHitsIn(match_set'[2], f, order)>>
        /\ result' = [k \in 1..2 |->
               [panicked |-> hits_result'[k].panicked,
                documents |-> [i \in DOMAIN hits_result'[k].ids |->
                                  index.documents[hits_result'[k].ids[i] + 1]]]]
        /\ UNCHANGED <<indexVars, urlVars, trieVars, phraseVars, serverVars, textVars>>
(***************************************************************************)
(* Searches for a quoted phrase taken from the text of a document that was *)
(* added.  The texts hold inflected and capitalized words and a stop word. *)
(***************************************************************************)
MaxTexts == 2
TextWords == {fox, foxes, red, Fox, the}
QuotedTexts == SeqsUpTo(TextWords, 2) \ {<<>>}
QuotedTitles == {<<>>, <<red>>}

AddText ==
    \E title \in QuotedTitles, text \in QuotedTexts :
        /\ index.finished = 0
        /\ Len(added) < MaxTexts
        /\ Len(added) < Len(ProseSlugs)
        /\ LET slug == ProseSlugs[Len(added) + 1]
               e == [document |-> ManifestDocument(slug, UrlOf(slug), title, text,
                                                   <<>>, <<>>),
                     include_in_global_search |-> TRUE,
                     search_property |-> "p1"]
           IN /\ index' = FTSIndexAdd(index, e.document,
                                      e.include_in_global_search, e.search_property)
              /\ added' = Append(added, e)
        /\ UNCHANGED <<clock, urlVars, trieVars, phraseVars, searchVars, serverVars, textVars>>

\* The runs of two or more words of a text that the words of a phrase may
\* be: no stop word among them.
PhrasesOf(text) ==
    {SubSeq(text, i, j) : i \in DOMAIN text, j \in DOMAIN text} \
        {ws \in {SubSeq(text, i, j) : i \in DOMAIN text, j \in DOMAIN text} :
            Len(ws) < 2 \/ \E k \in DOMAIN ws : is_stop_word(ws[k])}

\* The arithmetic gives every document a positive relevancy and a score.
QuotedOutcomes(ix) ==
    [0..(ix.doc_id - 1) ->
        {[relevancy |-> 1, score |-> [nan |-> FALSE, rank |-> k]] : k \in Ranks}]

\* The query is Query::new of the phrase between double quotes, without
\* search properties; the search is FTSIndex::search on the finished index.
SearchQuoted ==
    \E n \in DOMAIN added, f \in QuotedOutcomes(index) :
        \E ws \in PhrasesOf(added[n].document.text) :
            /\ index.finished # 0
            /\ result = <<>>
            /\ query' = <<QueryNew(<<Quote>> \o JoinWords(ws) \o <<Quote>>, <<>>)>>
            /\ fp' = <<f>>
            /\ match_set' = BaseSet(index, query'[1], f)
            /\ hits_result' = <<MatchSetHits(match_set', f)>>
            /\ result' = <<[doc |-> n - 1, words |-> ws,
                            search |-> FTSIndexSearch(index, match_set', f)]>>
            /\ UNCHANGED <<indexVars, urlVars, trieVars, phraseVars, serverVars, textVars>>

SearchIdle ==
    /\ query = <<>> /\ fp = <<>> /\ match_set = <<>>
    /\ hits_result = <<>> /\ result = <<>>

\* MatchSet::hits on match sets around MAX_MATCHES documents.
MaxMatchSet == 152
MatchSetSizes == (0..3) \cup ((MAX_MATCHES - 1)..MaxMatchSet)
\* Every document relevant, every 50th not, or every second not.
RelevancyPatterns == {0, 50, 2}
RelevancyOf(pattern, d) == IF pattern # 0 /\ d % pattern = 0 THEN 0 ELSE 1
MatchSetOf(n, pattern) ==
    [d \in 0..(n - 1) |->
        [SearchMatchNew(d) EXCEPT !.relevancy_score = RelevancyOf(pattern, d)]]
\* Scores that repeat with a period, ascending or scattered over the
\* documents; period 0 gives document 1 a NaN score.
ScorePeriods == {0, 1, 2, 5, 151}
ScoreSteps == {1, 7}
ScoreOf(period, step, d) ==
    IF period = 0 THEN [nan |-> d = 1, rank |-> 1]
    ELSE [nan |-> FALSE, rank |-> ((d * step) % period) + 1]

HitsCall ==
    \E period \in ScorePeriods, step \in ScoreSteps :
        /\ index.finished = 0
        /\ hits_result = <<>>
        /\ LET f == [d \in DOMAIN match_set |->
                        [relevancy |-> match_set[d].relevancy_score,
                         score |-> ScoreOf(period, step, d)]]
           IN /\ fp' = <<f>>
              /\ hits_result' = <<MatchSetHits(match_set, f)>>
        /\ UNCHANGED <<query, match_set, result, indexVars, urlVars, trieVars,
                       phraseVars, serverVars, textVars>>

\* MatchSet::hits called in two executions on one MatchSet of around
\* MAX_MATCHES documents.
HitsTwice ==
    \E period \in ScorePeriods, step \in ScoreSteps, order \in HashOrders :
        /\ index.finished = 0
        /\ hits_result = <<>>
        /\ order.terms = FALSE /\ order.keys = FALSE /\ order.drained = FALSE
        /\ LET f == [d \in DOMAIN match_set |->
                        [relevancy |-> match_set[d].relevancy_score,
                         score |-> ScoreOf(period, step, d)]]
           IN /\ fp' = <<f, InsertionOrder, order>>
              /\ hits_result' = <<MatchSetHitsIn(match_set, f, InsertionOrder),
                                  MatchSetHitsIn(match_set, f, order)>>
        /\ UNCHANGED <<query, match_set, result, indexVars, urlVars, trieVars,
                       phraseVars, serverVars, textVars>>

(***************************************************************************)
(* The server (main.rs): the workers of the CpuPool handle /search and     *)
(* /refresh requests on Marian.index, an RwLock<FTSIndex>.  In the server  *)
(* specification the variable index is the FTSIndex inside the lock.       *)
(***************************************************************************)
MaxWorkers == 2
MaxRefreshes == 2
Workers == 1..MaxWorkers

\* The manifests the loader returns, by search property; "p1" has the alias
\* "docs".
ManifestNames == SearchProperties
ManifestDocuments(property) ==
    SelectSeq(PoolOrder, LAMBDA e : e.search_property = property)
ManifestAliases(property) == IF property = "p1" THEN Aliases ELSE {}

RECURSIVE AliasAll(_, _, _)
\* "for alias in manifest.body.aliases.drain(..)" of handle_refresh.
AliasAll(ix, aliases, property) ==
    IF aliases = {} THEN ix
    ELSE LET a == CHOOSE x \in aliases : TRUE
         IN AliasAll(alias_search_property(ix, a, property), aliases \ {a}, property)

\* std::sync::RwLock: read() is granted while no writer holds the lock.
CanRead(l) == l.writer = {}
\* A variant that grants write() while readers hold the lock.
CanWriteDespiteReaders(l) == l.writer = {}
\* std::sync::RwLock: write() is granted when nobody holds the lock.
CanWrite(l) == l.writer = {} /\ l.readers = {}

StatusOk == 200
StatusNotModified == 304
StatusBadRequest == 400
StatusInternalServerError == 500
\* A worker between requests; status is the status of the response a refresh
\* is about to send, <<>> when it has none.
WorkerIdle ==
    [pc |-> "idle", documents |-> <<>>, new_index |-> <<>>, observed |-> <<>>,
     status |-> <<>>]

\* handle_search: marian.index.read()
SearchLock(w) ==
    /\ worker[w].pc = "idle"
    /\ CanRead(lock)
    /\ lock' = [lock EXCEPT !.readers = @ \cup {w}]
    /\ worker' = [worker EXCEPT ![w].pc = "locked"]
    /\ UNCHANGED <<refreshes, indexVars, searchVars, urlVars, trieVars, phraseVars, textVars>>

\* handle_search with an If-Modified-Since header: txn.finished is read.
SearchCheckModified(w) ==
    /\ worker[w].pc = "locked"
    /\ worker' = [worker EXCEPT ![w].pc = "checked", ![w].observed = Append(@, index)]
    /\ UNCHANGED <<lock, refreshes, indexVars, searchVars, urlVars, trieVars, phraseVars, textVars>>

\* txn.search: the terms, the trie and the fields are read.
SearchCollect(w) ==
    /\ worker[w].pc \in {"locked", "checked"}
    /\ worker' = [worker EXCEPT ![w].pc = "collected", ![w].observed = Append(@, index)]
    /\ UNCHANGED <<lock, refreshes, indexVars, searchVars, urlVars, trieVars, phraseVars, textVars>>

\* txn.search: the link graph and the document table are read.
SearchRank(w) ==
    /\ worker[w].pc = "collected"
    /\ worker' = [worker EXCEPT ![w].pc = "ranked", ![w].observed = Append(@, index)]
    /\ UNCHANGED <<lock, refreshes, indexVars, searchVars, urlVars, trieVars, phraseVars, textVars>>

\* handle_search returns, 304 after the check or the results: txn is dropped.
SearchReturn(w) ==
    /\ worker[w].pc \in {"checked", "ranked"}
    /\ lock' = [lock EXCEPT !.readers = @ \ {w}]
    /\ worker' = [worker EXCEPT ![w] = WorkerIdle]
    /\ UNCHANGED <<refreshes, indexVars, searchVars, urlVars, trieVars, phraseVars, textVars>>

\* handle_refresh: manifest_loader.load()? returns Err, and call makes the
\* response of it.
RefreshFail(w) ==
    /\ worker[w].pc = "idle"
    /\ Len(refreshes) < MaxRefreshes
    /\ refreshes' = Append(refreshes, <<>>)
    /\ worker' = [worker EXCEPT ![w].pc = "responding",
                                ![w].status = <<StatusInternalServerError>>]
    /\ UNCHANGED <<lock, indexVars, searchVars, urlVars, trieVars, phraseVars, textVars>>

\* handle_refresh: the manifests are loaded, new_index is made and given the
\* aliases.
RefreshLoad(w) ==
    \E property \in ManifestNames :
        /\ worker[w].pc = "idle"
        /\ Len(refreshes) < MaxRefreshes
        /\ refreshes' = Append(refreshes, <<property>>)
        /\ worker' = [worker EXCEPT
               ![w] = [pc |-> "building",
                       documents |-> ManifestDocuments(property),
                       new_index |-> AliasAll(FTSIndexNew(default_fields),
                                              ManifestAliases(property), property),
                       observed |-> <<>>, status |-> <<>>]]
        /\ UNCHANGED <<lock, indexVars, searchVars, urlVars, trieVars, phraseVars, textVars>>

\* A variant that adds the next document to the index inside the lock.
RefreshAddLive(w) ==
    /\ worker[w].pc = "building"
    /\ worker[w].documents # <<>>
    /\ LET e == Head(worker[w].documents)
       IN /\ worker' = [worker EXCEPT ![w].documents = Tail(@)]
          /\ index' = FTSIndexAdd(index, e.document, e.include_in_global_search,
                                  e.search_property)
    /\ UNCHANGED <<lock, refreshes, added, clock, searchVars, urlVars, trieVars,
                   phraseVars, textVars>>

\* handle_refresh: new_index.add of the next document.
RefreshAdd(w) ==
    /\ worker[w].pc = "building"
    /\ worker[w].documents # <<>>
    /\ LET e == Head(worker[w].documents)
       IN worker' = [worker EXCEPT
              ![w].documents = Tail(@),
              ![w].new_index = FTSIndexAdd(@, e.document, e.include_in_global_search,
                                           e.search_property)]
    /\ UNCHANGED <<lock, refreshes, indexVars, searchVars, urlVars, trieVars, phraseVars, textVars>>

\* handle_refresh: new_index.finish()
RefreshFinish(w) ==
    /\ worker[w].pc = "building"
    /\ worker[w].documents = <<>>
    /\ clock' = clock + 1
    /\ worker' = [worker EXCEPT ![w].pc = "finished",
                                ![w].new_index = FTSIndexFinish(@, clock')]
    /\ UNCHANGED <<lock, refreshes, index, added, searchVars, urlVars, trieVars,
                   phraseVars, textVars>>

\* handle_refresh: marian.index.write()
RefreshLock(w) ==
    /\ worker[w].pc = "finished"
    /\ CanWrite(lock)
    /\ lock' = [lock EXCEPT !.writer = {w}]
    /\ worker' = [worker EXCEPT ![w].pc = "writing"]
    /\ UNCHANGED <<refreshes, indexVars, searchVars, urlVars, trieVars, phraseVars, textVars>>

\* handle_refresh: mem::replace(&mut *txn, new_index), then txn is dropped
\* and Ok(()) returned.
RefreshSwap(w) ==
    /\ worker[w].pc = "writing"
    /\ index' = worker[w].new_index
    /\ lock' = [lock EXCEPT !.writer = {}]
    /\ worker' = [worker EXCEPT ![w] = [WorkerIdle EXCEPT !.pc = "responding",
                                                         !.status = <<StatusOk>>]]
    /\ UNCHANGED <<refreshes, added, clock, searchVars, urlVars, trieVars, phraseVars, textVars>>

\* MarianService::call: the response of the refresh is sent.
RefreshRespond(w) ==
    /\ worker[w].pc = "responding"
    /\ worker' = [worker EXCEPT ![w] = WorkerIdle]
    /\ UNCHANGED <<lock, refreshes, indexVars, searchVars, urlVars, trieVars, phraseVars,
                   textVars>>

\* The index handle_refresh builds of a manifest and finishes at a time.
FinishedBuild(property, now) ==
    FTSIndexFinish(
        AddAll(AliasAll(FTSIndexNew(default_fields), ManifestAliases(property), property),
               ManifestDocuments(property)),
        now)

(***************************************************************************)
(* handle_search as one request and its response.  The clock counts ticks, *)
(* TicksPerSecond to a second; an HTTP date is a number of whole seconds.  *)
(* An Option is <<>> for None and <<v>> for Some(v).                       *)
(***************************************************************************)
TicksPerSecond == 2
MaxSecond == 2
Comma == ","

\* timespec_from(&SystemTime::from(header.0)): the Timespec of an HTTP date.
timespec_from(seconds) == seconds * TicksPerSecond

\* "let mut last_sync_date = txn.finished; last_sync_date.nsec = 0;"
last_sync_date(ix) == (ix.finished \div TicksPerSecond) * TicksPerSecond

\* "std::time::UNIX_EPOCH + std::time::Duration::from_secs(0)" as an HTTP
\* date.
finished_time == 0

RECURSIVE Split(_, _)
\* value.split(','): value is a list of search property names and commas;
\* piece is the piece being read.
Split(value, piece) ==
    IF value = <<>> THEN <<piece>>
    ELSE IF Head(value) = Comma THEN <<piece>> \o Split(Tail(value), "")
    ELSE Split(Tail(value), Head(value))

\* 'query.get("searchProperties").unwrap_or(&"").split(',').collect()'
search_properties_of(parameter) ==
    Split(IF parameter = <<>> THEN <<>> ELSE parameter[1], "")

\* handle_search on the index inside the lock.  request.long: the decoded
\* query string is longer than MAXIMUM_QUERY_LENGTH; request.q: the Query
\* terms and phrases of the parameter q.
handle_search(ix, request, f) ==
    IF request.long \/ request.q = <<>>
    THEN [status |-> StatusBadRequest, last_modified |-> <<>>, results |-> <<>>,
          panicked |-> FALSE]
    ELSE IF /\ request.if_modified_since # <<>>
            /\ timespec_from(request.if_modified_since[1]) >= last_sync_date(ix)
    THEN [status |-> StatusNotModified, last_modified |-> <<>>, results |-> <<>>,
          panicked |-> FALSE]
    ELSE LET parsed_query ==
                 [request.q[1] EXCEPT
                     !.search_properties = search_properties_of(request.searchProperties)]
             results == FTSIndexSearch(ix, BaseSet(ix, parsed_query, f), f)
         IN [status |-> StatusOk, last_modified |-> <<finished_time>>,
             results |-> results.documents, panicked |-> results.panicked]

SearchPropertiesParameters ==
    {<<>>, << <<>> >>, << <<"p1">> >>, << <<"p2">> >>, << <<"docs">> >>,
     << <<"p1", Comma, "p2">> >>}
HttpQueries == {q \in QueryTexts : q.phrases = <<>> /\ Cardinality(q.terms) = 1}
Requests ==
    [long : {FALSE}, q : {<<q>> : q \in HttpQueries},
     searchProperties : SearchPropertiesParameters,
     if_modified_since : {<<>>} \cup {<<s>> : s \in 0..MaxSecond}]
    \cup [long : BOOLEAN, q : {<<>>}, searchProperties : {<<>>},
          if_modified_since : {<<>>}]
\* Every document has a relevancy above zero or none, and one score.
HttpOutcomes(ix) ==
    [0..(ix.doc_id - 1) ->
        {o \in FloatOutcome : o.relevancy >= 0 /\ ~o.score.nan /\ o.score.rank <= 1}]

\* The first GET /search after the refreshes; the response is kept with the
\* finished time of the index that answered.
HandleSearch ==
    \E request \in Requests, f \in HttpOutcomes(index) :
        /\ result = <<>>
        /\ query' = <<request>>
        /\ fp' = <<f>>
        /\ result' = <<[response |-> handle_search(index, request, f),
                        finished |-> index.finished]>>
        /\ UNCHANGED <<match_set, hits_result, indexVars, urlVars, trieVars,
                       phraseVars, serverVars, textVars>>

\* POST /refresh that succeeds, some ticks after the last one and before the
\* request: handle_refresh builds, finishes and swaps in the index of the
\* manifests loaded.
HandleRefresh ==
    \E c \in AliasCorpora, now \in (clock + 1)..(MaxSecond * TicksPerSecond + 1) :
        /\ result = <<>>
        /\ clock' = now
        /\ index' = FTSIndexFinish(
                        AddAll(alias_search_property(FTSIndexNew(default_fields),
                                                     "docs", "p1"), c),
                        now)
        /\ added' = c
        /\ UNCHANGED <<searchVars, urlVars, trieVars, phraseVars, serverVars, textVars>>
ServerIdle ==
    /\ lock = [readers |-> {}, writer |-> {}]
    /\ worker = <<>>
    /\ refreshes = <<>>

(***************************************************************************)
(* Specifications.                                                         *)
(***************************************************************************)
UrlInit ==
    url \in Urls /\ normalized = <<>> /\ TrieIdle /\ PhraseIdle /\ IndexIdle
    /\ SearchIdle /\ ServerIdle /\ TextIdle
UrlNext == NormalizeUrl
UrlSpec == UrlInit /\ [][UrlNext]_vars

TrieInit ==
    TrieIdle /\ UrlIdle /\ PhraseIdle /\ IndexIdle /\ SearchIdle /\ ServerIdle /\ TextIdle
TrieNext == TrieInsertCall \/ TrieSearchCall
TrieSpec == TrieInit /\ [][TrieNext]_vars

PhraseInit ==
    /\ stemmed_phrases \in StemmedPhraseLists
    /\ tokens \in KeywordMaps
    /\ phrase_result = <<>>
    /\ UrlIdle /\ TrieIdle /\ IndexIdle /\ SearchIdle /\ ServerIdle /\ TextIdle
PhraseNext == CheckPhrasesCall
PhraseSpec == PhraseInit /\ [][PhraseNext]_vars

IndexInit ==
    IndexIdle /\ UrlIdle /\ TrieIdle /\ PhraseIdle /\ SearchIdle /\ ServerIdle /\ TextIdle
IndexNext == AddDocument \/ AliasSearchProperty \/ FinishIndex
IndexSpec == IndexInit /\ [][IndexNext]_vars

ProseInit == IndexInit
ProseNext == AddProse \/ FinishIndex
ProseSpec == ProseInit /\ [][ProseNext]_vars

QuotedInit == IndexInit
QuotedNext == AddText \/ FinishIndex \/ SearchQuoted
QuotedSpec == QuotedInit /\ [][QuotedNext]_vars

EarlyInit == IndexInit
EarlyNext ==
    \/ result = <<>> /\ AddDocument
    \/ result = <<>> /\ AliasSearchProperty
    \/ EarlySearchCall
EarlySpec == EarlyInit /\ [][EarlyNext]_vars

AliasInit ==
    /\ \E c \in AliasCorpora :
           index = AddAll(FTSIndexNew(default_fields), c) /\ added = c
    /\ clock = 0
    /\ SearchIdle /\ UrlIdle /\ TrieIdle /\ PhraseIdle /\ ServerIdle /\ TextIdle
AliasNext == RegisterAlias \/ FinishIndex \/ AliasSearchCall
AliasSpec == AliasInit /\ [][AliasNext]_vars

RankedInit ==
    /\ \E c \in RankedCorpora : index = FinishedIndex(c) /\ added = c
    /\ clock = 1
    /\ SearchIdle /\ UrlIdle /\ TrieIdle /\ PhraseIdle /\ ServerIdle /\ TextIdle
RankedNext == RankedSearchCall
RankedSpec == RankedInit /\ [][RankedNext]_vars
SearchInit ==
    /\ \E c \in Corpora : index = FinishedIndex(c) /\ added = c
    /\ clock = 1
    /\ SearchIdle /\ UrlIdle /\ TrieIdle /\ PhraseIdle /\ ServerIdle /\ TextIdle
SearchNext == SearchCall
SearchSpec == SearchInit /\ [][SearchNext]_vars

HitsInit ==
    /\ \E n \in MatchSetSizes, pattern \in RelevancyPatterns :
           match_set = MatchSetOf(n, pattern)
    /\ query = <<>> /\ fp = <<>> /\ hits_result = <<>> /\ result = <<>>
    /\ IndexIdle /\ UrlIdle /\ TrieIdle /\ PhraseIdle /\ ServerIdle /\ TextIdle
HitsNext == HitsCall
HitsSpec == HitsInit /\ [][HitsNext]_vars

TwiceInit ==
    \/ /\ \E c \in TwiceCorpora : index = FinishedIndex(c) /\ added = c
       /\ clock = 1
       /\ SearchIdle /\ UrlIdle /\ TrieIdle /\ PhraseIdle /\ ServerIdle /\ TextIdle
    \/ HitsInit
TwiceNext == SearchTwice \/ HitsTwice
TwiceSpec == TwiceInit /\ [][TwiceNext]_vars
QueryInit ==
    /\ query_string \in QueryStrings
    /\ parsed = <<>> /\ parsed_closed = <<>>
    /\ TokenizeIdle /\ StemIdle
    /\ UrlIdle /\ TrieIdle /\ PhraseIdle /\ IndexIdle /\ SearchIdle /\ ServerIdle
QueryNext == ParseQuery \/ ParseClosedQuery
QuerySpec == QueryInit /\ [][QueryNext]_vars

\* The server after Marian::new: the first handle_refresh has installed a
\* finished index, and no request is being handled.
TokenizeInit ==
    /\ input_text \in TokenizeTexts
    /\ tokenized = <<>>
    /\ ParseIdle /\ StemIdle
    /\ UrlIdle /\ TrieIdle /\ PhraseIdle /\ IndexIdle /\ SearchIdle /\ ServerIdle
TokenizeNext == TokenizeCall
TokenizeSpec == TokenizeInit /\ [][TokenizeNext]_vars

StemInit ==
    /\ input_word \in StemWords
    /\ stem_results = <<>>
    /\ stem_cache = <<>>
    /\ ParseIdle /\ TokenizeIdle
    /\ UrlIdle /\ TrieIdle /\ PhraseIdle /\ IndexIdle /\ SearchIdle /\ ServerIdle
StemNext == StemWord \/ StemStem
StemSpec == StemInit /\ [][StemNext]_vars

ServerInit ==
    /\ \E property \in ManifestNames : index = FinishedBuild(property, 1)
    /\ added = <<>>
    /\ clock = 1
    /\ lock = [readers |-> {}, writer |-> {}]
    /\ worker = [w \in Workers |-> WorkerIdle]
    /\ refreshes = <<>>
    /\ SearchIdle /\ UrlIdle /\ TrieIdle /\ PhraseIdle /\ TextIdle
ServerNext ==
    \E w \in Workers :
        \/ SearchLock(w)
        \/ SearchCheckModified(w)
        \/ SearchCollect(w)
        \/ SearchRank(w)
        \/ SearchReturn(w)
        \/ RefreshFail(w)
        \/ RefreshLoad(w)
        \/ RefreshAdd(w)
        \/ RefreshFinish(w)
        \/ RefreshLock(w)
        \/ RefreshSwap(w)
        \/ RefreshRespond(w)
ServerSpec == ServerInit /\ [][ServerNext]_vars

\* Marian::new has refreshed once before the first request is served.
HttpInit ==
    /\ \E c \in AliasCorpora, now \in 1..TicksPerSecond :
           /\ index = FTSIndexFinish(
                          AddAll(alias_search_property(FTSIndexNew(default_fields),
                                                       "docs", "p1"), c),
                          now)
           /\ added = c
           /\ clock = now
    /\ SearchIdle /\ UrlIdle /\ TrieIdle /\ PhraseIdle /\ ServerIdle /\ TextIdle
HttpNext == HandleSearch \/ HandleRefresh
HttpSpec == HttpInit /\ [][HttpNext]_vars

(***************************************************************************)
(* Properties of normalize_url.                                            *)
(***************************************************************************)
\* The number of slashes u ends with.
TrailingSlashes(u) ==
    CHOOSE k \in 0..Len(u) :
        /\ \A i \in (Len(u) - k + 1)..Len(u) : u[i] = Slash
        /\ k < Len(u) => u[Len(u) - k] # Slash

\* C8: normalize_url is idempotent: normalizing a normalized URL again
\* returns it unchanged.
C8_NormalizeUrlIdempotent ==
    Len(normalized) = 2 => normalized[2] = normalized[1]

\* C9 as stated: the result ends with exactly one slash, and a URL that holds
\* "/index.html" is cut right after the slash of an occurrence.
C9_ExactlyOneTrailingSlash ==
    Len(normalized) >= 1 =>
        /\ TrailingSlashes(normalized[1]) = 1
        /\ IndexHtmlOccurrences(url) # {} =>
               \E i \in IndexHtmlOccurrences(url) :
                   normalized[1] = SubSeq(url, 1, i)

C9_Examples ==
    /\ normalize_url(<<"https:", Slash, Slash, "x", Slash, "y", Slash, IndexHtml>>)
         = <<"https:", Slash, Slash, "x", Slash, "y", Slash>>
    /\ normalize_url(<<"https:", Slash, Slash, "x", Slash, "y">>)
         = <<"https:", Slash, Slash, "x", Slash, "y", Slash>>

\* C9 (amended): normalize_url(u) ends with a slash; a slash is appended only
\* to a text that does not end with one, so the result ends with exactly one
\* slash unless the kept part of u already ends with several; if u holds
\* "/index.html" the result is u cut right after the slash of its last
\* occurrence, and otherwise it is u, with a slash appended if u has none.
C9_TrailingSlashAndTruncation ==
    /\ C9_Examples
    /\ Len(normalized) >= 1 =>
        LET r == normalized[1]
            occ == IndexHtmlOccurrences(url)
        IN /\ EndsWithSlash(r)
           /\ TrailingSlashes(r) = 1 \/ IsPrefix(r, url)
           /\ occ # {} =>
                  \E i \in occ : (\A j \in occ : j <= i) /\ r = SubSeq(url, 1, i)
           /\ occ = {} =>
                  r = IF EndsWithSlash(url) THEN url ELSE Append(url, Slash)

\* A URL with two occurrences of "/index.html" has been normalized.
C9_Witness ==
    /\ Len(normalized) >= 1
    /\ Cardinality(IndexHtmlOccurrences(url)) = 2
    /\ normalized[1] # url

(***************************************************************************)
(* Properties of the trie.                                                 *)
(***************************************************************************)
\* The <<token, id>> pairs inserted so far whose token starts with p.
InsertedUnder(p) == {c \in Range(inserted) : IsPrefix(p, c[1])}

\* C5: search(prefix) returns exactly the documents inserted with a token
\* that starts with the prefix, each with exactly those tokens, once each.
C5_TrieSearchExact ==
    found # <<>> =>
        LET p == found[1].prefix
            r == found[1].result
        IN /\ DOMAIN r = {c[2] : c \in InsertedUnder(p)}
           /\ \A d \in DOMAIN r :
                /\ Range(r[d]) = {c[1] : c \in {x \in InsertedUnder(p) : x[2] = d}}
                /\ Len(r[d]) = Cardinality(Range(r[d]))

\* A pair was inserted twice, the same token for two documents, and a search
\* found two tokens for one document.
C5_Witness ==
    /\ found # <<>>
    /\ \E i, j \in DOMAIN inserted : i # j /\ inserted[i] = inserted[j]
    /\ \E d \in DOMAIN found[1].result : Len(found[1].result[d]) = 2

(***************************************************************************)
(* Properties of the phrase checker.                                       *)
(***************************************************************************)
\* One position per component, each the successor of the one before.
PhraseMatches(phrase, keywords) ==
    /\ \A i \in DOMAIN phrase : phrase[i] \in DOMAIN keywords
    /\ \E choice \in [DOMAIN phrase -> 0..MaxPosition] :
          /\ \A i \in DOMAIN phrase : choice[i] \in Range(keywords[phrase[i]])
          /\ \A i \in 1..(Len(phrase) - 1) : choice[i + 1] = choice[i] + 1

\* The fixtures of test_check_phrases and test_check_phrases_negative; the
\* stemmed phrases are those of "Quoth the raven" and of "foo bar".
C4_Examples ==
    /\ check_phrases(<< <<quoth, raven>> >>,
                     (quoth :> <<0, 5>>) @@ (raven :> <<8, 1>>))
    /\ ~check_phrases(<< <<foo, bar>>, <<quoth, raven>> >>,
                      (quoth :> <<0, 3>>) @@ (raven :> <<2, 5>>)
                          @@ (foo :> <<6>>) @@ (bar :> <<7>>))

\* C4: check_phrases returns true iff every stemmed phrase has all its
\* components in the map and a choice of consecutive positions, one per
\* component; a phrase without components is satisfied.
C4_CheckPhrasesIffContiguous ==
    /\ C4_Examples
    /\ phrase_result # <<>> =>
         phrase_result[1] =
             \A i \in DOMAIN stemmed_phrases :
                 PhraseMatches(stemmed_phrases[i], tokens)

\* A two-phrase query matched through an unsorted position list, one phrase
\* being empty.
C4_Witness ==
    /\ phrase_result = <<TRUE>>
    /\ Len(stemmed_phrases) = 2
    /\ stemmed_phrases[1] = <<>>
    /\ Len(stemmed_phrases[2]) = 2
    /\ \E w \in DOMAIN tokens : Len(tokens[w]) = 2 /\ tokens[w][1] > tokens[w][2]

(***************************************************************************)
(* Properties of the index builder.                                        *)
(***************************************************************************)
\* The IDs given out by the add calls so far.
AssignedIds == 0..(Len(added) - 1)

\* Every document ID the index holds: in the trie, the term entries, the
\* field entries, the URL maps and the adjacency lists.
IdsInIndex ==
    UNION {index.trie[k] : k \in DOMAIN index.trie}
    \cup UNION {Range(index.terms[t].docs) \cup DOMAIN index.terms[t].positions :
                   t \in DOMAIN index.terms}
    \cup UNION {DOMAIN index.fields[k].documents : k \in DOMAIN index.fields}
    \cup DOMAIN index.id_to_url
    \cup {index.url_to_id[u] : u \in DOMAIN index.url_to_id}
    \cup DOMAIN index.outgoing_neighbors \cup DOMAIN index.incoming_neighbors
    \cup UNION {Range(index.outgoing_neighbors[d]) : d \in DOMAIN index.outgoing_neighbors}
    \cup UNION {Range(index.incoming_neighbors[d]) : d \in DOMAIN index.incoming_neighbors}

\* C6: after n add calls the documents have the IDs 0..n-1 in insertion
\* order, the document at position i of the table has ID i and is the i-th
\* document added, every ID in the index is one of them, and the next ID is n.
C6_DenseDocIds ==
    /\ index.doc_id = Len(added)
    /\ Len(index.documents) = Len(added)
    /\ \A i \in AssignedIds :
          /\ index.documents[i + 1]._id = i
          /\ index.documents[i + 1].url = normalize_url(added[i + 1].document.url)
          /\ index.documents[i + 1].title = added[i + 1].document.title
          /\ index.id_to_url[i] = index.documents[i + 1].url
    /\ IdsInIndex \subseteq AssignedIds

\* Three documents were added and their IDs are in the trie and in the
\* adjacency lists.
C6_Witness ==
    /\ Len(added) = 3
    /\ \E k \in DOMAIN index.trie : 2 \in index.trie[k]
    /\ \E d \in DOMAIN index.outgoing_neighbors : index.outgoing_neighbors[d] # <<>>

\* The frequency of term t in the entry of document d in field f.
TermFrequency(f, d, t) ==
    IF d \in DOMAIN f.documents
    THEN Get(f.documents[d].term_frequencies, t, 0)
    ELSE 0

\* The terms of the index: the keys of the term table and of every field
\* entry's frequencies.
TermsOfIndex ==
    DOMAIN index.terms
    \cup UNION {UNION {DOMAIN index.fields[k].documents[d].term_frequencies :
                          d \in DOMAIN index.fields[k].documents} :
                   k \in DOMAIN index.fields}

\* C7: the frequency of t in field F for d is nonzero iff t was registered
\* for (F, d); times_appeared[F] is the number of documents with a nonzero
\* frequency; a (field, document) pair is registered at most once per term.
C7_FrequencyIffRegistered ==
    \A t \in TermsOfIndex :
        /\ t \in DOMAIN index.terms
        /\ \A k \in DOMAIN index.fields :
              LET f == index.fields[k]
                  entry == index.terms[t]
              IN /\ \A d \in AssignedIds :
                        TermFrequency(f, d, t) > 0
                            <=> <<f.name, d>> \in Range(entry.registered)
                 /\ Get(entry.times_appeared, f.name, 0)
                        = Cardinality({d \in AssignedIds : TermFrequency(f, d, t) > 0})
        /\ \A i, j \in DOMAIN index.terms[t].registered :
              index.terms[t].registered[i] = index.terms[t].registered[j] => i = j

\* A term occurs twice in one field of a document and is registered for two
\* fields of it.
C7_Witness ==
    \E t \in DOMAIN index.terms, d \in AssignedIds :
        /\ \E k \in DOMAIN index.fields : TermFrequency(index.fields[k], d, t) >= 2
        /\ Cardinality({k \in DOMAIN index.fields :
                           TermFrequency(index.fields[k], d, t) > 0}) >= 2

\* C10: after finish, both adjacency lists have an entry for every assigned
\* document ID, and hold assigned IDs only.
C10_AdjacencyForEveryDocument ==
    index.finished # 0 =>
        /\ DOMAIN index.outgoing_neighbors = AssignedIds
        /\ DOMAIN index.incoming_neighbors = AssignedIds
        /\ \A d \in AssignedIds :
              /\ Range(index.outgoing_neighbors[d]) \subseteq AssignedIds
              /\ Range(index.incoming_neighbors[d]) \subseteq AssignedIds

\* A finished index with two documents of one normalized URL, a link to the
\* URL of no document, an empty and a non-empty adjacency list.
C10_Witness ==
    /\ index.finished # 0
    /\ \E i, j \in AssignedIds : i # j /\ index.id_to_url[i] = index.id_to_url[j]
    /\ \E u \in DOMAIN index.inverse_link_graph : u \notin DOMAIN index.url_to_id
    /\ \E d \in AssignedIds : index.outgoing_neighbors[d] = <<>>
    /\ \E d \in AssignedIds : index.incoming_neighbors[d] # <<>>

\* The matches hits does not cut: those of a relevancy above zero.
Survivors == {d \in DOMAIN match_set : match_set[d].relevancy_score > 0}
\* The final score hits computed for a surviving match.
FinalScore(d) == fp[1][d].score.rank

\* C2: the list hits returns, and search maps to documents, has at most
\* MAX_MATCHES entries, no entry twice, is in non-increasing order of final
\* score, holds every surviving match when there are at most MAX_MATCHES of
\* them and otherwise MAX_MATCHES of them, none with a lower final score than
\* a surviving match that is left out.
C2_AtMostMaxMatchesSortedTop ==
    (hits_result # <<>> /\ ~hits_result[1].panicked) =>
        LET ids == hits_result[1].ids
            scores == hits_result[1].scores
        IN /\ Len(ids) <= MAX_MATCHES
           /\ \A i \in DOMAIN ids :
                 ids[i] \in Survivors /\ scores[i].rank = FinalScore(ids[i])
           /\ \A i, j \in DOMAIN ids : ids[i] = ids[j] => i = j
           /\ \A i, j \in DOMAIN ids : i < j => scores[i].rank >= scores[j].rank
           /\ Cardinality(Survivors) <= MAX_MATCHES => Range(ids) = Survivors
           /\ Cardinality(Survivors) > MAX_MATCHES =>
                 /\ Len(ids) = MAX_MATCHES
                 /\ \A d \in Survivors \ Range(ids), i \in DOMAIN ids :
                       scores[i].rank >= FinalScore(d)
           /\ result # <<>> =>
                 result[1].documents = [i \in DOMAIN ids |-> index.documents[ids[i] + 1]]

\* More than MAX_MATCHES matches survive, of different final scores, and one
\* that is left out has a lower score than the last one returned.
C2_Witness ==
    /\ hits_result # <<>>
    /\ ~hits_result[1].panicked
    /\ Cardinality(Survivors) > MAX_MATCHES
    /\ Len(hits_result[1].ids) = MAX_MATCHES
    /\ hits_result[1].scores[1].rank > hits_result[1].scores[MAX_MATCHES].rank
    /\ \E d \in Survivors \ Range(hits_result[1].ids) :
          FinalScore(d) < hits_result[1].scores[MAX_MATCHES].rank

\* The property filter as the claim states it, for the query of the search.
SatisfiesPropertyFilter(doc) ==
    LET named == Range(query[1].search_properties)
        resolved == {IF p \in DOMAIN index.search_property_aliases
                     THEN index.search_property_aliases[p] ELSE p : p \in named}
    IN IF named # {} THEN doc.search_property \in resolved
       ELSE doc.include_in_global_search

\* C3: every document search returns satisfies the property filter of the
\* query, also when documents that fail it are in the base set as link
\* neighbors of matches.
C3_ReturnedSatisfyPropertyFilter ==
    result # <<>> =>
        \A i \in DOMAIN result[1].documents :
            SatisfiesPropertyFilter(result[1].documents[i])

\* A search by an aliased property returns a document, and a document that
\* fails the filter is in the base set as a neighbor of a returned one.
C3_Witness ==
    /\ result # <<>>
    /\ query[1].search_properties = <<"docs">>
    /\ result[1].documents # <<>>
    /\ \E d \in DOMAIN match_set, i \in DOMAIN result[1].documents :
          /\ ~SatisfiesPropertyFilter(index.documents[d + 1])
          /\ d \in match_set[result[1].documents[i]._id].incoming_neighbors

\* The indexes handle_refresh can install: each a manifest fully added and
\* finished.
FullBuilds ==
    {FinishedBuild(property, now) :
        property \in ManifestNames, now \in 1..(MaxRefreshes + 1)}

\* C1: whatever a search reads while it runs is one index, the one inside the
\* lock since the search took it, and that index is a manifest fully added
\* and finished; a refresh holds no lock while it builds, and holds the write
\* lock only with no reader.
C1_SearchReadsOneFinishedSnapshot ==
    /\ \A w \in DOMAIN worker :
          /\ \A i \in DOMAIN worker[w].observed :
                /\ worker[w].observed[i] = index
                /\ worker[w].observed[i].finished \in 1..clock
                /\ worker[w].observed[i] \in FullBuilds
          /\ worker[w].pc \in {"building", "finished"} =>
                w \notin lock.readers \cup lock.writer
    /\ lock.writer # {} => lock.readers = {}

\* A search has read the index twice, the index a swap installed, while a
\* refresh that finished another index waits for the write lock.
C1_Witness ==
    \E w, v \in DOMAIN worker :
        /\ Len(worker[w].observed) >= 2
        /\ index.finished > 1
        /\ worker[v].pc = "finished"
        /\ worker[v].new_index # index

\* The number of double quotes of a string.
QuoteCount(string) == Cardinality({i \in DOMAIN string : string[i] = Quote})

\* C11: for a query string with an odd number of double quotes, Query::new
\* makes the same terms, phrases and stemmed phrases of the string and of the
\* string with a closing quote appended.
C11_UnclosedQuoteClosedAtEnd ==
    (parsed # <<>> /\ parsed_closed # <<>> /\ QuoteCount(query_string) % 2 = 1) =>
        /\ parsed[1].terms = parsed_closed[1].terms
        /\ parsed[1].phrases = parsed_closed[1].phrases
        /\ parsed[1].stemmed_phrases = parsed_closed[1].stemmed_phrases

\* Both strings are parsed, the quote left open is the third one, and the
\* open phrase has a word that is stemmed.
C11_Witness ==
    /\ parsed # <<>> /\ parsed_closed # <<>>
    /\ QuoteCount(query_string) = 3
    /\ Len(parsed_closed[1].phrases) = 2
    /\ parsed_closed[1].stemmed_phrases[2] # <<>>

RECURSIVE SpaceJoined(_)
\* Words joined by single spaces.
SpaceJoined(words) ==
    IF words = <<>> THEN <<>>
    ELSE IF Len(words) = 1 THEN words[1]
    ELSE words[1] \o <<Space>> \o SpaceJoined(Tail(words))

\* The pieces a query string splits into on whitespace and double quotes.
PiecesOf(string) == QueryParts(string)
\* The positions of the double quotes among the pieces, in order.
QuotePositions(pieces) ==
    LET at == {i \in DOMAIN pieces : pieces[i] = <<Quote>>}
    IN [k \in 1..Cardinality(at) |->
           CHOOSE i \in at : Cardinality({j \in at : j < i}) = k - 1]
\* The words of the k-th quoted stretch: after the (2k-1)-th quote and before
\* the next quote, or the end of the string.
QuotedWords(pieces, k) ==
    LET quotes == QuotePositions(pieces)
        from == quotes[2 * k - 1] + 1
        to == IF 2 * k <= Len(quotes) THEN quotes[2 * k] - 1 ELSE Len(pieces)
    IN SubSeq(pieces, from, to)

\* The query strings of the tests test_multi_word_phrases and
\* test_adjacent_phrases give what the tests expect.
C12_Examples ==
    LET introduce == <<"i", "n", "t", "r", "o", "d", "u", "c", "e">>
        officially == <<"o", "f", "f", "i", "c", "i", "a", "l", "l", "y">>
        supported == <<"s", "u", "p", "p", "o", "r", "t", "e", "d">>
        q == QueryNew(<<Quote>> \o introduce \o <<Space>> \o the \o <<Quote, Space, Quote>>
                          \o officially \o <<Space>> \o supported \o <<Quote>>, <<>>)
    IN /\ q.terms = {introduce, officially, supported}
       /\ q.phrases = <<introduce \o <<Space>> \o the, officially \o <<Space>> \o supported>>
       /\ q.stemmed_phrases =
              << <<SubSeq(introduce, 1, 8)>>, <<SubSeq(officially, 1, 6), SubSeq(supported, 1, 7)>> >>

\* C12: the terms are the words of the query string that are no stop words,
\* inside quotes or outside; there is one phrase per quoted stretch, in
\* order, made of the words of the stretch, stop words too, joined by single
\* spaces; and the i-th stemmed phrase holds the stems of the tokens of the
\* i-th phrase (tokenized non-fuzzily) that are no stop words.
C12_TermsPhrasesStemmedPhrases ==
    /\ C12_Examples
    /\ parsed # <<>> =>
          LET q == parsed[1]
              pieces == PiecesOf(query_string)
              words == {pieces[i] : i \in {j \in DOMAIN pieces : pieces[j] # <<Quote>>}}
              stretches == (Len(QuotePositions(pieces)) + 1) \div 2
          IN /\ q.terms = {w \in words : w \notin STOP_WORDS}
             /\ Len(q.phrases) = stretches
             /\ Len(q.stemmed_phrases) = stretches
             /\ \A k \in 1..stretches :
                   /\ q.phrases[k] = SpaceJoined(QuotedWords(pieces, k))
                   /\ LET toks == tokenize(Components(q.phrases[k]), FALSE)
                          kept == SelectSeq(toks, LAMBDA t : t \notin STOP_WORDS)
                      IN q.stemmed_phrases[k] = [i \in DOMAIN kept |-> stem(kept[i])]

\* A phrase of two words, one a stop word that the phrase keeps and the
\* stemmed phrase and the terms drop, the other an inflected word.
C12_Witness ==
    /\ parsed # <<>>
    /\ \E k \in DOMAIN parsed[1].phrases :
          /\ parsed[1].phrases[k] = the \o <<Space>> \o foxes
          /\ parsed[1].stemmed_phrases[k] = <<fox>>
    /\ parsed[1].terms = {foxes}

\* C14: no term of a parsed query is a stop word in any letter case, and
\* every term is lowercase.
C14_TermsLowercaseNoStopWord ==
    parsed # <<>> =>
        \A term \in parsed[1].terms :
            /\ to_lowercase(term) = term
            /\ to_lowercase(term) \notin STOP_WORDS


\* C13: no key of the term table or of the trie is a stop word, the stems of
\* inflected words included.
C13_NoStopWordIsIndexed ==
    /\ \A t \in DOMAIN index.terms : ~is_stop_word(t)
    /\ \A t \in DOMAIN index.trie : ~is_stop_word(t)

\* The components tokenize works on: each piece dot-stripped and lowercased.
NormalizedComponents ==
    [i \in DOMAIN input_text |-> to_lowercase(StripDots(input_text[i]))]
\* The positions of an "ops" or "cloud" immediately followed by "manager".
AtomicPairs ==
    {i \in DOMAIN input_text :
        /\ i + 1 <= Len(input_text)
        /\ NormalizedComponents[i] \in DOMAIN ATOMIC_PHRASE_MAP
        /\ NormalizedComponents[i + 1] = manager}
\* The positions of a "manager" that is not the second half of a pair.
LoneManagers ==
    {i \in DOMAIN input_text :
        NormalizedComponents[i] = manager /\ (i - 1) \notin AtomicPairs}
Occurrences(toks, S) == Cardinality({i \in DOMAIN toks : toks[i] \in S})

\* tokenize emits exactly one fused token for each pair and no "manager" for
\* the second half of a pair, in fuzzy and in non-fuzzy mode.
FusesAtomicPhrases ==
    tokenized # <<>> =>
        LET toks == tokenized[1].tokens
            copies == IF tokenized[1].fuzzy THEN 2 ELSE 1
        IN /\ Occurrences(toks, ATOMIC_PHRASES) = Cardinality(AtomicPairs)
           /\ Occurrences(toks, {manager}) = copies * Cardinality(LoneManagers)
           /\ input_text = <<ops, manager, cloud>> /\ ~tokenized[1].fuzzy
                  => toks = <<ops \o <<Space>> \o manager, cloud>>

\* C15: tokenize fuses "ops"/"cloud" and a following "manager" into exactly
\* one token in both modes, and every other token it returns is lowercase and
\* longer than one character.
C15_FusesAndKeepsLongLowercase ==
    /\ FusesAtomicPhrases
    /\ tokenized # <<>> =>
           \A i \in DOMAIN tokenized[1].tokens :
               LET token == tokenized[1].tokens[i]
               IN token \notin ATOMIC_PHRASES
                      => token = to_lowercase(token) /\ Len(token) > 1

\* C17: a search on an index finish was not called on fails instead of
\* returning a result list.
C17_SearchBeforeFinishFails ==
    index.finished = 0 /\ result # <<>> => result[1].panicked

\* The search of the query of the last call with the search properties
\* replaced, on the same index and with the same arithmetic.
SearchWithProperties(properties) ==
    LET q == [query[1] EXCEPT !.search_properties = properties]
    IN FTSIndexSearch(index, BaseSet(index, q, fp[1]), fp[1])
\* The search property of the last call.
SearchedProperty == query[1].search_properties[1]
ReturnedProperties ==
    {result[1].documents[i].search_property : i \in DOMAIN result[1].documents}

\* C20 as stated: a search with an alias returns what a search with the
\* property the alias is registered for returns.
C20_AliasSearchEqualsPropertySearch ==
    result # <<>> /\ SearchedProperty \in DOMAIN index.search_property_aliases
        => result[1] = SearchWithProperties(
                           <<index.search_property_aliases[SearchedProperty]>>)

\* C20, amended: when the alias table maps A to P and P is not the alias of
\* another property, a search with [A] returns what a search with [P] returns,
\* documents of property P only; a name that is no alias is used literally.
C20_AliasResolvedOneStep ==
    result # <<>> =>
        LET aliases == index.search_property_aliases
            A == SearchedProperty
        IN IF A \in DOMAIN aliases
           THEN /\ ReturnedProperties \subseteq {aliases[A]}
                /\ aliases[A] \notin DOMAIN aliases \/ aliases[aliases[A]] = aliases[A]
                       => result[1] = SearchWithProperties(<<aliases[A]>>)
           ELSE ReturnedProperties \subseteq {A}

\* A search with the alias "docs" of "p1" returned a document, and one with a
\* name that is no alias returned one.
C20_Witness ==
    /\ result # <<>>
    /\ result[1].documents # <<>>
    /\ SearchedProperty = "docs"
    /\ "docs" \in DOMAIN index.search_property_aliases
    /\ index.search_property_aliases["docs"] = "p1"
    /\ "p1" \notin DOMAIN index.search_property_aliases

\* The stems the documents and queries of the model are given are those the
\* stemmer computes.
Porter2StemsAgree ==
    \A w \in DOMAIN Porter2Stems :
        StemmerContextNew(w) = [current |-> Porter2Stems[w], panicked |-> FALSE]

\* C19: stem(stem(w)) = stem(w), with or without the cache: the second call
\* returns the word it was given.
C19_StemIdempotent ==
    Len(stem_results) = 2 /\ ~stem_results[2].panicked
        => stem_results[2].current = stem_results[1].current


\* C18: on a finished index FTSIndex::search returns normally and every
\* document it returns has a finite final score, neither NaN nor infinite:
\* the maxima hits divides by are not zero.
C18_SearchReturnsFiniteScores ==
    hits_result # <<>> =>
        /\ ~hits_result[1].panicked
        /\ \A d \in DOMAIN hits_result[1].scores : hits_result[1].scores[d] = "finite"

\* The documents hits returned in the k-th of two executions, and the score
\* both executions were given for a document.
ReturnedIn(k) == Range(hits_result[k].ids)
GivenScore(d) == fp[1][d].score

LastResponse == result[1].response
AnsweredSecond == result[1].finished \div TicksPerSecond
\* The response to the last request repeated with If-Modified-Since set to
\* the Last-Modified it got, from the index that is served now.
RepeatedResponse ==
    handle_search(index,
                  [query[1] EXCEPT !.if_modified_since = LastResponse.last_modified],
                  fp[1])

\* C21: a 200 response of GET /search has a Last-Modified equal to the second
\* of the finished time of the index that answered, and the request repeated
\* with that date as If-Modified-Since gets 304 while the index is the same.
C21_LastModifiedIsFinishedTime ==
    result # <<>> /\ LastResponse.status = StatusOk =>
        /\ LastResponse.last_modified = <<AnsweredSecond>>
        /\ index.finished = result[1].finished =>
               RepeatedResponse.status = StatusNotModified

\* What FTSIndex::search returns for the query of the last request as a query
\* without search properties, on the index that answered.
GlobalSearch ==
    FTSIndexSearch(index,
                   BaseSet(index, [query[1].q[1] EXCEPT !.search_properties = <<>>],
                           fp[1]),
                   fp[1])

\* C25: a GET /search without the parameter searchProperties, or with an
\* empty one, is answered like a query without search properties: from the
\* documents with include_in_global_search, whatever their search property.
C25_NoSearchPropertiesIsGlobal ==
    /\ result # <<>>
    /\ LastResponse.status = StatusOk
    /\ query[1].searchProperties \in {<<>>, << <<>> >>}
    => LastResponse.results = GlobalSearch.documents

\* The refreshes whose response is made in this step, with the status given.
Responding(status) ==
    {w \in Workers : worker'[w].status = <<status>> /\ worker[w].status # <<status>>}

\* C22: a refresh whose manifest loading fails answers 500 and leaves the
\* index inside the lock, the lock and what the running searches have read
\* as they were; the index inside the lock changes only in the step of a
\* successful refresh that holds the write lock, and becomes the index that
\* refresh built and finished, whole.
C22_RefreshNeverMutatesTheLiveIndex ==
    [][/\ \A w \in Responding(StatusInternalServerError) :
              /\ index' = index
              /\ lock' = lock
              /\ \A v \in Workers : worker'[v].observed = worker[v].observed
       /\ index' # index =>
              \E w \in Responding(StatusOk) :
                  /\ lock.writer = {w}
                  /\ index' = worker[w].new_index
                  /\ index' \in FullBuilds
       /\ \A w \in Responding(StatusOk) : index' = worker[w].new_index]_vars

\* A refresh answers 500 while a search that has read the index, the one an
\* earlier refresh installed, is still running.
C22_Witness ==
    \E w, v \in Workers :
        /\ worker[w].status = <<StatusInternalServerError>>
        /\ worker[v].pc = "collected"
        /\ worker[v].observed = <<index>>
        /\ index.finished > 1

\* What the loop over the fields of add holds when the index is ix.
FieldLoopStart(ix) ==
    [fields |-> ix.fields, trie |-> ix.trie, terms |-> ix.terms,
     term_id |-> ix.term_id, correlations |-> <<>>]

\* The pass of the loop over the fields of add for field k alone.
IndexOneField(b, document, doc_id, k) ==
    LET after == IndexFields([b EXCEPT !.fields = SubSeq(b.fields, 1, k)],
                             document, doc_id, k)
    IN [after EXCEPT
           !.fields = [i \in DOMAIN b.fields |->
                          IF i = k THEN after.fields[k] ELSE b.fields[i]]]

\* The positions the term table holds for document doc_id.
PositionsOf(terms, doc_id) ==
    UNION {Range(Get(terms[t].positions, doc_id, <<>>)) : t \in DOMAIN terms}

RECURSIVE TokenLog(_, _, _, _, _)
\* The positions the loop over the tokens of one field gives, in the order
\* of the tokens: one entry for each token that is indexed.
TokenLog(acc, toks, field_name, doc_id, i) ==
    IF i > Len(toks) THEN <<>>
    ELSE LET next == IndexToken(acc, toks[i], field_name, doc_id)
             given == PositionsOf(next.terms, doc_id) \ PositionsOf(acc.terms, doc_id)
         IN [p \in 1..Cardinality(given) |->
                [doc |-> doc_id, field |-> field_name,
                 position |-> CHOOSE x \in given : TRUE]]
            \o TokenLog(next, toks, field_name, doc_id, i + 1)

RECURSIVE FieldLog(_, _, _, _)
\* The positions add gives to the tokens of document from field k on, in the
\* order of indexing.
FieldLog(b, document, doc_id, k) ==
    IF k > Len(b.fields) THEN <<>>
    ELSE LET after == IndexOneField(b, document, doc_id, k)
             text == ManifestDocumentGet(document, b.fields[k].name)
             entries ==
                 IF after = b THEN <<>>
                 ELSE TokenLog([trie |-> b.trie, terms |-> b.terms,
                                term_id |-> b.term_id,
                                correlations |-> b.correlations,
                                term_frequencies |-> EmptyMap,
                                number_of_tokens |-> 0],
                               tokenize(text[1], TRUE), b.fields[k].name, doc_id, 1)
         IN entries \o FieldLog(after, document, doc_id, k + 1)

RECURSIVE PositionLog(_, _)
\* The positions the add calls of entries give, starting from the index ix,
\* in the order of indexing.
PositionLog(ix, entries) ==
    IF entries = <<>> THEN <<>>
    ELSE FieldLog(FieldLoopStart(ix), Head(entries).document, DocIdOfAdd(ix), 1)
         \o PositionLog(FTSIndexAdd(ix, Head(entries).document,
                                    Head(entries).include_in_global_search,
                                    Head(entries).search_property),
                        Tail(entries))

\* The positions given by the add calls made so far.
AssignedPositions == PositionLog(FTSIndexNew(default_fields), added)

SameField(a, b) == a.doc = b.doc /\ a.field = b.field

\* C23: the positions in the term table are the ones the add calls gave, in
\* the order of indexing they increase strictly and stay at or below the
\* counter, two tokens indexed one after the other in the same field of the
\* same document differ by 1, two tokens of different fields or documents
\* differ by at least 2, and no two of different fields are a contiguous
\* path for the phrase check.
C23_PositionsIncreaseWithGaps ==
    LET assigned == AssignedPositions
    IN /\ \A d \in 0..(index.doc_id - 1) :
              PositionsOf(index.terms, d) =
                  {assigned[i].position : i \in {j \in DOMAIN assigned : assigned[j].doc = d}}
       /\ \A i \in DOMAIN assigned : assigned[i].position \in 1..index.term_id
       /\ \A i, j \in DOMAIN assigned :
              /\ i < j => assigned[i].position < assigned[j].position
              /\ j = i + 1 /\ SameField(assigned[i], assigned[j]) =>
                     assigned[j].position = assigned[i].position + 1
              /\ i < j /\ ~SameField(assigned[i], assigned[j]) =>
                     /\ assigned[j].position >= assigned[i].position + 2
                     /\ ~have_contiguous_path(<< <<assigned[i].position>>,
                                                 <<assigned[j].position>> >>, -1)

\* Two documents are indexed, one of them with tokens in two fields.
C23_Witness ==
    LET assigned == AssignedPositions
    IN /\ \E i, j \in DOMAIN assigned :
              assigned[i].doc = assigned[j].doc /\ assigned[i].field # assigned[j].field
       /\ \E i, j \in DOMAIN assigned : assigned[i].doc # assigned[j].doc
       /\ \E i \in DOMAIN assigned :
              i < Len(assigned) /\ SameField(assigned[i], assigned[i + 1])

\* The root documents of the base set, those that matched a term of the query
\* and passed the filters, and the nodes that are in it as neighbors only.
RootDocuments == {d \in DOMAIN match_set : match_set[d].terms # {}}
GraphOnly == DOMAIN match_set \ RootDocuments

\* C24: when no root document has accumulated a relevancy of exactly zero,
\* hits leaves out the nodes of the base set whose relevancy is zero and no
\* other: every root document is returned, whatever the sign of its
\* relevancy, and no node that is a neighbor only.
C24_CutsOnlyGraphOnlyNodes ==
    /\ hits_result # <<>>
    /\ ~hits_result[1].panicked
    /\ Cardinality(DOMAIN match_set) <= MAX_MATCHES
    /\ \A d \in RootDocuments : match_set[d].relevancy_score # 0
    => /\ \A d \in DOMAIN match_set :
              d \notin Range(hits_result[1].ids) <=> match_set[d].relevancy_score = 0
       /\ RootDocuments \subseteq Range(hits_result[1].ids)
       /\ GraphOnly \cap Range(hits_result[1].ids) = {}

\* C26: the document a quoted phrase was taken from, words that stand one
\* after the other in a field of it, is in the root set of the search for
\* the phrase: it matched and passed the phrase filter.
C26_PhraseSearchFindsItsText ==
    result # <<>> => result[1].doc \in RootDocuments

\* The same for the phrases whose words are written in lower case.
PhraseInLowerCaseIsFound ==
    /\ result # <<>>
    /\ \A i \in DOMAIN result[1].words :
           result[1].words[i] = to_lowercase(result[1].words[i])
    => /\ result[1].doc \in RootDocuments
       /\ \E i \in DOMAIN result[1].search.documents :
              result[1].search.documents[i]._id = result[1].doc

\* Document a was added with a link whose normalized URL is the normalized
\* URL document b was added with.
AddedWithLinkTo(a, b) ==
    \E i \in DOMAIN added[a + 1].document.links :
        normalize_url(added[a + 1].document.links[i])
            = normalize_url(added[b + 1].document.url)

\* C27: after finish, for all documents a and b, b is an outgoing neighbor of
\* a iff a is an incoming neighbor of b iff a was added with a link to b's
\* URL, both normalized.
C27_AdjacencyListsFaithful ==
    index.finished # 0 =>
        \A a, b \in 0..(index.doc_id - 1) :
            /\ b \in Range(index.outgoing_neighbors[a])
                   <=> a \in Range(index.incoming_neighbors[b])
            /\ b \in Range(index.outgoing_neighbors[a]) <=> AddedWithLinkTo(a, b)

\* The same for the indexes in which no two documents have the same
\* normalized URL.
AdjacencyFaithfulForDistinctUrls ==
    /\ index.finished # 0
    /\ \A a, b \in 0..(index.doc_id - 1) :
           normalize_url(added[a + 1].document.url)
               = normalize_url(added[b + 1].document.url) => a = b
    => \A a, b \in 0..(index.doc_id - 1) :
           /\ b \in Range(index.outgoing_neighbors[a])
                  <=> a \in Range(index.incoming_neighbors[b])
           /\ b \in Range(index.outgoing_neighbors[a]) <=> AddedWithLinkTo(a, b)

\* The root set of the last search and the IDs of its documents.
LastRootSet == RootSet(index, query[1], fp[1])
LastRootIds == {LastRootSet[i]._id : i \in DOMAIN LastRootSet}
\* The orders the root matches may be inserted in.
InsertionOrders ==
    {p \in [DOMAIN LastRootSet -> DOMAIN LastRootSet] :
        \A i, j \in DOMAIN p : p[i] = p[j] => i = j}
NeighborsInIndex(d) ==
    Range(Get(index.incoming_neighbors, d, <<>>))
        \cup Range(Get(index.outgoing_neighbors, d, <<>>))

\* C28: the base set of a search is the same for every order in which the
\* root matches are inserted; its keys are the root documents and their
\* incoming and outgoing neighbors; a root document has the relevancy and
\* the terms of its match; a node that is no root document has relevancy 0,
\* no terms and no neighbors; every neighbor of a node is a key.
C28_BaseSetWhateverTheInsertionOrder ==
    result # <<>> =>
        /\ \A p \in InsertionOrders :
               BaseSetOf(index, [i \in DOMAIN p |-> LastRootSet[p[i]]]) = match_set
        /\ DOMAIN match_set = LastRootIds \cup UNION {NeighborsInIndex(d) : d \in LastRootIds}
        /\ \A i \in DOMAIN LastRootSet :
               /\ match_set[LastRootSet[i]._id].relevancy_score
                      = LastRootSet[i].relevancy_score
               /\ match_set[LastRootSet[i]._id].relevancy_score
                      = fp[1][LastRootSet[i]._id].relevancy
               /\ match_set[LastRootSet[i]._id].terms = LastRootSet[i].terms
               /\ LastRootSet[i].terms # {}
        /\ \A d \in DOMAIN match_set \ LastRootIds :
               match_set[d] = SearchMatchNew(d)
        /\ \A d \in DOMAIN match_set :
               match_set[d].incoming_neighbors \cup match_set[d].outgoing_neighbors
                   \subseteq DOMAIN match_set

\* Two root documents of a relevancy other than zero link to each other, and
\* a third document is in the base set as a neighbor only.
C28_Witness ==
    /\ result # <<>>
    /\ \E a, b \in LastRootIds :
           /\ a # b
           /\ b \in match_set[a].outgoing_neighbors
           /\ a \in match_set[b].outgoing_neighbors
           /\ match_set[a].relevancy_score # 0
           /\ match_set[b].relevancy_score # 0
    /\ DOMAIN match_set # LastRootIds

\* Document d is stored under token t in the trie.
StoredInTrie(t, d) == t \in DOMAIN index.trie /\ d \in index.trie[t]
\* The positions the term table holds for token t in document d.
PositionList(t, d) ==
    IF t \in DOMAIN index.terms THEN Get(index.terms[t].positions, d, <<>>) ELSE <<>>
\* The occurrences of token t in the field entries of document d.
TotalFrequency(t, d) ==
    SumOver([k \in DOMAIN index.fields |-> TermFrequency(index.fields[k], d, t)],
            DOMAIN index.fields)
\* The prefixes of the tokens of the index: the keys a search may look up
\* that match in the trie.
MatchingKeys ==
    UNION {{SubSeq(t, 1, n) : n \in 0..Len(t)} : t \in DOMAIN index.trie}

\* C29: a document is stored under a token in the trie iff the term table
\* has positions for the token in the document iff a field entry of the
\* document has a frequency above zero for the token; the number of positions
\* is the sum of the frequencies over the fields; and every token a trie
\* search yields for a document has a term entry with a position list for
\* the document.
C29_TrieAndTermTableAgree ==
    /\ \A t \in TermsOfIndex \cup DOMAIN index.trie \cup DOMAIN index.terms,
          d \in AssignedIds :
           /\ StoredInTrie(t, d) <=> PositionList(t, d) # <<>>
           /\ StoredInTrie(t, d) <=> TotalFrequency(t, d) > 0
           /\ Len(PositionList(t, d)) = TotalFrequency(t, d)
    /\ \A t \in DOMAIN index.terms :
           /\ DOMAIN index.terms[t].positions \subseteq AssignedIds
           /\ \A d \in DOMAIN index.terms[t].positions :
                  index.terms[t].positions[d] # <<>>
    /\ \A t \in DOMAIN index.trie : index.trie[t] \subseteq AssignedIds
    /\ \A key \in MatchingKeys :
           LET hit == TrieSearch(index.trie, key)
           IN \A d \in DOMAIN hit :
                  \A i \in DOMAIN hit[d] :
                      /\ hit[d][i] \in DOMAIN index.terms
                      /\ d \in DOMAIN index.terms[hit[d][i]].positions

\* A token is in two fields of one document, which has four positions or
\* more for it, and another document does not have the token.
C29_Witness ==
    \E t \in DOMAIN index.trie, d, e \in AssignedIds :
        /\ StoredInTrie(t, d)
        /\ ~StoredInTrie(t, e)
        /\ Len(PositionList(t, d)) >= 4
        /\ Cardinality({k \in DOMAIN index.fields :
                           TermFrequency(index.fields[k], d, t) > 0}) >= 2
        /\ \E u \in DOMAIN index.trie : StoredInTrie(u, e)

\* The refreshes whose load returned manifests, in the order of the loads.
Loaded == SelectSeq(refreshes, LAMBDA r : r # <<>>)
\* The manifests the last of those loads returned.
LoadedLast == Loaded[Len(Loaded)][1]

\* C30: when every refresh taken has completed, of which at least one has
\* loaded manifests, the index inside the lock is the one built of the
\* manifests that were loaded last.
C30_ServesTheLastLoad ==
    /\ \A w \in Workers : worker[w].pc = "idle"
    /\ Loaded # <<>>
    => index = FinishedBuild(LoadedLast, index.finished)
====
